---- MODULE Spec2Model ----
(***************************************************************************)
(* A model of PyPCAPKit's schema-driven field engine: the composite fields *)
(* of pcapkit/corekit/fields/misc.py (ListField, OptionField), the HIP and *)
(* PCAP-NG schemas that use them, and the Mobility Header option readers   *)
(* and constructors.                                                       *)
(***************************************************************************)
EXTENDS Integers, Sequences, FiniteSets, TLC

\* ------------------------------------------------------------------ bounds
\* Longest value list handed to ListField.pack.
MaxItems == 3
\* Widest item field of a ListField, in bytes.
MaxItemLen == 2
\* Largest byte budget handed to ListField.unpack.
MaxBudget == 6
\* Most parameters in a stream handed to OptionField.unpack.
MaxParams == 2
\* Largest "len" of a HIP parameter unpacked on its own.
MaxLen == 20
\* Most bytes of packet or secrets data in a PCAP-NG block.
MaxData == 4
\* Largest length field of a Mobility Header option.
MaxOptLen == 18
\* The longest resolution string of a name-resolution record.
MaxName == 3
\* The most lookups made on one enumeration.
MaxLookups == 2
\* Largest length field of a PCAP-NG option whose value has no fixed size.
MaxValue == 5
\* Most frames the input file of an Extractor holds.
MaxFrames == 2
\* Most times the engine signals EOF to one Extractor: the depth at which the
\* recursion of __next__ and __call__ under no_eof ends.
MaxEOF == 2
\* Most packets handed to one TCP flow tracer.
MaxPackets == 3

VARIABLES
    \* ---- ListField / OptionField (corekit/fields/misc.py)
    op,         \* which field is at work: "none", "list", "option"
    value,      \* the value list given to ListField.pack
    itemlen,    \* field.length of the ListField's item field
    file,       \* the buffer (io.BytesIO) the field reads from
    pos,        \* the buffer's cursor, 0-based
    budget,     \* self.length when unpack starts
    length,     \* the local "length" of unpack: the remaining budget
    temp,       \* the local "temp" of unpack: the items read so far
    pc,         \* "idle", "packed", "loop", "returned", "raised"
    err,        \* the exception raised, "none" when there is none
    meta,       \* the local "meta" of OptionField.unpack: the peeked header
    registry,   \* the registry of the HIP "param" OptionField
    \* ---- Schema.unpack of one PCAP-NG block or one HIP parameter
    cls,        \* the schema class being unpacked, "" when there is none
    idx,        \* the next field of the schema to bind, from 1
    packet,     \* the packet context built so far
    platform,   \* the host byte order; how a bit field past its bytes reads
    sent,       \* what the writer of the structure put on the wire
    block,      \* the attributes post_process set on the instance
    \* ---- Mobility Header options (protocols/internet/mh.py)
    option,     \* the option schema handed to _read_opt_X
    data,       \* the data record _read_opt_X returned
    remade,     \* the option schema _make_opt_X returned for the record
    warned,     \* whether a ProtocolWarning was issued
    \* ---- Name Resolution Block around one record (schema/misc/pcapng.py)
    nrb,        \* the mappings NameResolutionBlock.post_process built
    \* ---- namespace-backed enumerations (const/)
    enum,       \* the enumeration class looked up in, "" when there is none
    members,    \* its members, declared and registered since
    found,      \* the lookups made: the value and the member or exception
    \* ---- ConditionalField (corekit/fields/misc.py)
    conditional,\* the field: the wrapped field and what its condition gives
    packed,     \* what pack returned
    unpacked,   \* what unpack returned
    \* ---- field instances resolved by __call__ (corekit/fields/misc.py)
    descriptor, \* the field a schema class holds, shared by every unpack run
    callback,   \* the callback the field was constructed with
    runs,       \* per unpack run: its packet, the instance it got, its result
    \* ---- Extractor (foundation/extraction.py)
    extractor,  \* its flags, its input file and engine, what it has read
    \* ---- TCP flow tracing (foundation/traceflow/tcp.py)
    tracer      \* _buffer, _stream, the submit cache, the packets traced

vars == <<op, value, itemlen, file, pos, budget, length, temp, pc, err,
          meta, registry, cls, idx, packet, platform, sent, block,
          option, data, remade, warned, nrb, enum, members, found,
          conditional, packed, unpacked, descriptor, callback, runs,
          extractor, tracer>>

\* The state of the Mobility Header option reader and constructor.
mhVars == <<option, data, remade, warned>>

\* The state of the operations on records, enums and field instances.
restVars == <<nrb, enum, members, found, conditional, packed, unpacked,
              descriptor, callback, runs, extractor, tracer>>

\* The state of the unpack runs that share a field.
callVars == <<descriptor, callback, runs>>

\* The state of a ConditionalField at work.
condVars == <<conditional, packed, unpacked>>

\* The state of Schema.unpack.
walkVars == <<cls, idx, packet, platform, sent, block>>

\* The state of ListField.unpack and OptionField.unpack.
fieldVars == <<value, itemlen, budget, length, temp, meta, registry>>

\* The state of an Extractor and of a TCP flow tracer.
toolVars == <<extractor, tracer>>

\* The state of the operations on buffers, schemas and fields.
parseVars == <<value, itemlen, file, pos, budget, length, temp, meta, registry,
               cls, idx, packet, platform, sent, block, option, data, remade,
               warned, nrb, enum, members, found, conditional, packed,
               unpacked, descriptor, callback, runs>>

\* ------------------------------------------------------------ bytes, numbers
Min(a, b) == IF a < b THEN a ELSE b

RECURSIVE Pow256(_)
Pow256(n) == IF n = 0 THEN 1 ELSE 256 * Pow256(n - 1)

\* The n bytes of x in big-endian order (NumberField.pack, byteorder "big").
RECURSIVE ToBytes(_, _)
ToBytes(x, n) == IF n = 0 THEN <<>> ELSE Append(ToBytes(x \div 256, n - 1), x % 256)

\* The number a byte string holds in big-endian order (NumberField.unpack).
RECURSIVE FromBytes(_)
FromBytes(bs) ==
    IF bs = <<>> THEN 0
    ELSE 256 * FromBytes(SubSeq(bs, 1, Len(bs) - 1)) + bs[Len(bs)]

Reverse(s) == [i \in 1..Len(s) |-> s[Len(s) + 1 - i]]

\* file.read(n) at cursor p: at most n bytes, fewer at the end of the buffer.
Read(f, p, n) == SubSeq(f, p + 1, Min(p + n, Len(f)))

Zeros(n) == [i \in 1..n |-> 0]

\* ---------------------------------------------- length callbacks of fields
\* A field's length: a constant, or a callback over the packet context. The
\* callbacks the schemas declare are kept as terms, so that both the value a
\* callback returns and the keys it subscripts can be computed.
Expr(kind, key, a, m, k2, k3) ==
    [kind |-> kind, key |-> key, a |-> a, m |-> m, k2 |-> k2, k3 |-> k3]
\* length=n
Const(n) == Expr("const", "", n, 1, "", "")
\* lambda pkt: pkt[k] + a
Lin(k, a) == Expr("lin", k, a, 1, "", "")
\* lambda pkt: (pkt[k] + a) * m
Mul(k, a, m) == Expr("mul", k, a, m, "", "")
\* lambda pkt: (pkt[k] + a) // 2
Half(k, a) == Expr("half", k, a, 2, "", "")
\* lambda pkt: (m - pkt[k] % m) % m        (pkt[k], or len(pkt[k]) of bytes)
Pad(k, m) == Expr("pad", k, 0, m, "", "")
\* lambda pkt: pkt[k] + a - pkt[k2] - len(pkt[k3])      (k3 may be absent)
Rest(k, a, k2, k3) == Expr("rest", k, a, 1, k2, k3)
\* lambda pkt: pkt['len'] - (16 if pkt.get('iv') else 0)
EncData == Expr("encdata", "len", 0, 16, "iv", "")
\* lambda pkt: min(pkt.get('snaplen', 0xFFFFFFFFFFFFFFFF), pkt['original_len'])
MinSnap == Expr("minsnap", "original_len", 0, 1, "snaplen", "")

\* The keys a length callback subscripts (pkt[k]); pkt.get(k) never fails.
Keys(e) ==
    CASE e.kind = "const" -> {}
      [] e.kind = "rest" -> {e.key, e.k2, e.k3} \ {""}
      [] OTHER -> {e.key}

\* pkt.get(k, d)
Get(pkt, k, d) == IF k \in DOMAIN pkt THEN pkt[k] ELSE d

\* What the callback returns on a packet context that binds its keys. The
\* context holds a number for a numeric field and the byte count of a bytes,
\* list or padding field.
Eval(e, pkt) ==
    CASE e.kind = "const" -> e.a
      [] e.kind = "lin" -> pkt[e.key] + e.a
      [] e.kind = "mul" -> (pkt[e.key] + e.a) * e.m
      [] e.kind = "half" -> (pkt[e.key] + e.a) \div 2
      [] e.kind = "pad" -> (e.m - (pkt[e.key] % e.m)) % e.m
      [] e.kind = "rest" ->
            pkt[e.key] + e.a - pkt[e.k2] - (IF e.k3 = "" THEN 0 ELSE pkt[e.k3])
      [] e.kind = "encdata" ->
            pkt[e.key] - (IF Get(pkt, e.k2, 0) # 0 THEN e.m ELSE 0)
      [] e.kind = "minsnap" ->
            Min(Get(pkt, e.k2, pkt[e.key]), pkt[e.key])

\* A field of a schema: its name, what it is, its length, the item length of
\* a list, the callback that sets its byte order, the bits a bit field keeps
\* (offset, width), and for a conditional field the key it is present on and
\* the values of that key it is present for.
FD(name, kind, len, item, cb, bit, cond, vals) ==
    [name |-> name, kind |-> kind, len |-> len, item |-> item, cb |-> cb,
     bit |-> bit, cond |-> cond, vals |-> vals]
Num(name, n) == FD(name, "num", Const(n), 0, "", <<>>, "", {})
NumL(name, e) == FD(name, "num", e, 0, "", <<>>, "", {})
NumCb(name, n, cb) == FD(name, "num", Const(n), 0, cb, <<>>, "", {})
Bytes(name, e) == FD(name, "bytes", e, 0, "", <<>>, "", {})
Padding(name, e) == FD(name, "padding", e, 0, "", <<>>, "", {})
Items(name, e, n) == FD(name, "list", e, n, "", <<>>, "", {})
Opts(name, e) == FD(name, "option", e, 0, "", <<>>, "", {})
Switch(name, e) == FD(name, "switch", e, 0, "", <<>>, "", {})
Payload(name, e) == FD(name, "payload", e, 0, "", <<>>, "", {})
Bits(name, n, bit) == FD(name, "bits", Const(n), 0, "", bit, "", {})
Cond(name, n, key, vals) == FD(name, "cond", Const(n), 0, "", <<>>, key, vals)
Match(name, n, bit) == FD(name, "match", Const(n), 0, "", bit, "", {})
Str(name, e) == FD(name, "str", e, 0, "", <<>>, "", {})
Addr(name, n) == FD(name, "addr", Const(n), 0, "", <<>>, "", {})

\* --------------------------------------------------------- Schema.unpack
\* packet[k] = v
Put(pkt, k, v) == [x \in DOMAIN pkt \cup {k} |-> IF x = k THEN v ELSE pkt[x]]

RECURSIVE Pow2(_)
Pow2(n) == IF n = 0 THEN 1 ELSE 2 * Pow2(n - 1)

\* The bits (offset, width) of a bit field read from the bytes bs, the first
\* bit being the highest of the first byte.
BitsOf(bs, bit) ==
    LET lo == bit[1] \div 8
        hi == (bit[1] + bit[2] + 7) \div 8
        v == FromBytes(SubSeq(bs, lo + 1, hi)) \div Pow2(8 * hi - bit[1] - bit[2])
    IN  IF bit[1] % 8 = 0 THEN v ELSE v % Pow2(bit[2])

\* The byte-order magic of a section header block, as the number its four
\* bytes make in big-endian order on a big-endian and on a little-endian
\* section.
BigMagic == 439041101
LittleMagic == 1295788826

\* The byte order a number field decodes with: "big" unless a callback sets
\* it, from the matched magic of the block (shb_byteorder_callback, which
\* knows two magics) or from the packet context and, failing that, the host
\* (byteorder_callback).
OrderOf(fd, pkt, env) ==
    CASE fd.cb = "shb" ->
            (CASE pkt["match"] = BigMagic -> "big"
               [] pkt["match"] = LittleMagic -> "little"
               [] OTHER -> "unknown")
      [] fd.cb = "byteorder" -> Get(pkt, "byteorder", env.host)
      [] OTHER -> "big"

\* int.from_bytes(bs, order)
Decode(bs, order) == IF order = "little" THEN FromBytes(Reverse(bs)) ELSE FromBytes(bs)

\* The keys binding a field subscripts in the packet context.
Needs(fd) ==
    Keys(fd.len) \cup (IF fd.kind = "cond" THEN {fd.cond} ELSE {})
                 \cup (IF fd.cb = "shb" THEN {"match"} ELSE {})

\* What the packet context holds for a field read from the bytes bs.
ValueOf(fd, bs, pkt, env) ==
    CASE fd.kind = "num" -> Decode(bs, OrderOf(fd, pkt, env))
      [] fd.kind \in {"bits", "match"} -> BitsOf(bs, fd.bit)
      [] fd.kind \in {"str", "addr"} -> bs
      [] OTHER -> Len(bs)

Outcome(p, pkt, e) == [pos |-> p, pkt |-> pkt, err |-> e]

\* The context after a field took n bytes: the remaining length budget the
\* engine keeps under "__length__" goes down by n.
Took(pkt, n) == Put(pkt, "__length__", pkt["__length__"] - n)

\* The bytes a bit field reads: its declared length; where its namespace
\* names bits past that, the read either fails or (env.wide) goes on to the
\* bytes that hold them.
BitBytes(fd, n, env) ==
    IF fd.kind \in {"bits", "match"} /\ fd.bit[1] + fd.bit[2] > 8 * n
    THEN (IF env.wide THEN (fd.bit[1] + fd.bit[2] + 7) \div 8 ELSE -1)
    ELSE n

\* Binding one field at cursor p: resolve its length on the context, run its
\* callback, read the bytes, put the value in the context.
Bind(fd, f, p, pkt, env) ==
    IF ~(Needs(fd) \subseteq DOMAIN pkt) THEN Outcome(p, pkt, "KeyError")
    ELSE IF fd.kind = "cond" /\ pkt[fd.cond] \notin fd.vals
    THEN Outcome(p, Put(pkt, fd.name, 0), "none")
    ELSE IF fd.kind = "num" /\ OrderOf(fd, pkt, env) = "unknown"
    THEN Outcome(p, pkt, "ProtocolError")
    ELSE LET n == BitBytes(fd, Eval(fd.len, pkt), env)
             bs == Read(f, p, n)
         IN  IF n < 0 /\ fd.kind \in {"bits", "match"}
             THEN Outcome(p, pkt, "ValueError")
             ELSE IF n < 0 THEN Outcome(p, pkt, "FieldValueError")
             ELSE IF fd.kind = "list" /\ fd.item > 0 /\ n % fd.item # 0
             THEN Outcome(p, pkt, "FieldValueError")
             ELSE IF Len(bs) < n THEN Outcome(p, pkt, "EOFError")
             ELSE IF fd.kind = "match"
             THEN Outcome(p, Put(pkt, fd.name, ValueOf(fd, bs, pkt, env)), "none")
             ELSE Outcome(p + n,
                          Took(Put(pkt, fd.name, ValueOf(fd, bs, pkt, env)), n),
                          "none")

\* The fields from the i-th on, in declaration order, each on the context the
\* earlier ones built; the first failure aborts the schema.
RECURSIVE UnpackFrom(_, _, _, _, _, _)
UnpackFrom(fields, i, f, p, pkt, env) ==
    IF i > Len(fields) THEN Outcome(p, pkt, "none")
    ELSE LET r == Bind(fields[i], f, p, pkt, env)
         IN  IF r.err # "none" THEN r
             ELSE UnpackFrom(fields, i + 1, f, r.pos, r.pkt, env)

\* Schema.unpack(file, length, packet), before post_process: the context
\* starts with the length budget.
Unpack(fields, f, p, pkt, len) ==
    UnpackFrom(fields, 1, f, p, Put(pkt, "__length__", len),
               [host |-> "big", wide |-> FALSE])

\* ------------------------------------------------ HIP parameter schemas
\* Enum_Parameter: the HIP parameter type numbers.
Enum_Parameter ==
    [ESP_INFO |-> 65,
     R1_COUNTER |-> 129,
     LOCATOR_SET |-> 193,
     PUZZLE |-> 257,
     SOLUTION |-> 321,
     SEQ |-> 385,
     ACK |-> 449,
     DH_GROUP_LIST |-> 511,
     DIFFIE_HELLMAN |-> 513,
     HIP_TRANSFORM |-> 577,
     HIP_CIPHER |-> 579,
     NAT_TRAVERSAL_MODE |-> 608,
     TRANSACTION_PACING |-> 610,
     ENCRYPTED |-> 641,
     HOST_ID |-> 705,
     HIT_SUITE_LIST |-> 715,
     CERT |-> 768,
     NOTIFICATION |-> 832,
     ECHO_REQUEST_SIGNED |-> 897,
     REG_INFO |-> 930,
     REG_REQUEST |-> 932,
     REG_FAILED |-> 936,
     REG_FROM |-> 950,
     ECHO_RESPONSE_SIGNED |-> 961,
     TRANSPORT_FORMAT_LIST |-> 2049,
     ESP_TRANSFORM |-> 4095,
     SEQ_DATA |-> 4481,
     ACK_DATA |-> 4545,
     PAYLOAD_MIC |-> 4577,
     TRANSACTION_ID |-> 4580,
     OVERLAY_ID |-> 4592,
     ROUTE_DST |-> 4601,
     HIP_TRANSPORT_MODE |-> 7680,
     HIP_MAC |-> 61505,
     HIP_MAC_2 |-> 61569,
     HIP_SIGNATURE_2 |-> 61633,
     HIP_SIGNATURE |-> 61697,
     ECHO_REQUEST_UNSIGNED |-> 63661,
     ECHO_RESPONSE_UNSIGNED |-> 63425,
     RELAY_FROM |-> 63998,
     RELAY_TO |-> 64002,
     OVERLAY_TTL |-> 64011,
     ROUTE_VIA |-> 64017,
     FROM |-> 65498,
     RVS_HMAC |-> 65500,
     VIA_RVS |-> 65502,
     RELAY_HMAC |-> 65520,
     REG_RESPONSE |-> 934]

\* Enum_Cipher: the HIP cipher suite numbers.
Enum_Cipher == [NULL_ENCRYPT |-> 1, AES_128_CBC |-> 2, AES_256_CBC |-> 4]

\* The entries the HIP schema gives the registry of its "param" field.
ParamSchemas ==
    [ESP_INFO |-> "ESPInfoParameter",
     R1_COUNTER |-> "R1CounterParameter",
     LOCATOR_SET |-> "LocatorSetParameter",
     PUZZLE |-> "PuzzleParameter",
     SOLUTION |-> "SolutionParameter",
     SEQ |-> "SEQParameter",
     ACK |-> "ACKParameter",
     DH_GROUP_LIST |-> "DHGroupListParameter",
     DIFFIE_HELLMAN |-> "DiffieHellmanParameter",
     HIP_TRANSFORM |-> "HIPTransformParameter",
     HIP_CIPHER |-> "HIPCipherParameter",
     NAT_TRAVERSAL_MODE |-> "NATTraversalModeParameter",
     TRANSACTION_PACING |-> "TransactionPacingParameter",
     ENCRYPTED |-> "EncryptedParameter",
     HOST_ID |-> "HostIDParameter",
     HIT_SUITE_LIST |-> "HITSuiteListParameter",
     CERT |-> "CertParameter",
     NOTIFICATION |-> "NotificationParameter",
     ECHO_REQUEST_SIGNED |-> "EchoRequestSignedParameter",
     REG_INFO |-> "RegInfoParameter",
     REG_REQUEST |-> "RegRequestParameter",
     REG_FAILED |-> "RegFailedParameter",
     REG_FROM |-> "RegFromParameter",
     ECHO_RESPONSE_SIGNED |-> "EchoResponseSignedParameter",
     TRANSPORT_FORMAT_LIST |-> "TransportFormatListParameter",
     ESP_TRANSFORM |-> "ESPTransformParameter",
     SEQ_DATA |-> "SeqDataParameter",
     ACK_DATA |-> "AckDataParameter",
     PAYLOAD_MIC |-> "PayloadMICParameter",
     TRANSACTION_ID |-> "TransactionIDParameter",
     OVERLAY_ID |-> "OverlayIDParameter",
     ROUTE_DST |-> "RouteDstParameter",
     HIP_TRANSPORT_MODE |-> "HIPTransportModeParameter",
     HIP_MAC |-> "HIPMACParameter",
     HIP_MAC_2 |-> "HIPMAC2Parameter",
     HIP_SIGNATURE_2 |-> "HIPSignature2Parameter",
     HIP_SIGNATURE |-> "HIPSignatureParameter",
     ECHO_REQUEST_UNSIGNED |-> "EchoRequestUnsignedParameter",
     ECHO_RESPONSE_UNSIGNED |-> "EchoResponseUnsignedParameter",
     RELAY_FROM |-> "RelayFromParameter",
     RELAY_TO |-> "RelayToParameter",
     OVERLAY_TTL |-> "OverlayTTLParameter",
     ROUTE_VIA |-> "RouteViaParameter",
     FROM |-> "FromParameter",
     RVS_HMAC |-> "RVSHMACParameter",
     VIA_RVS |-> "ViaRVSParameter",
     RELAY_HMAC |-> "RelayHMACParameter"]

\* The registry as the mapping the OptionField holds: type number to schema.
HIPRegistry ==
    [c \in {Enum_Parameter[k] : k \in DOMAIN ParamSchemas} |->
        ParamSchemas[CHOOSE k \in DOMAIN ParamSchemas : Enum_Parameter[k] = c]]

\* Parameter, the base schema: the type and the length of the contents.
ParameterHeader == <<Num("type", 2), Num("len", 2)>>

\* The fields a parameter schema declares after those of Parameter. The
\* context holds for "di_data" the "len" bits of the bit field.
ParamBody(s) ==
    CASE s = "UnassignedParameter" ->
            <<Bytes("value", Lin("len", 0)),
              Padding("padding", Pad("len", 8))>>
      [] s = "ESPInfoParameter" ->
            <<Padding("reserved", Const(2)),
              Num("index", 2),
              Num("old_spi", 4),
              Num("new_spi", 4),
              Padding("padding", Pad("len", 8))>>
      [] s = "R1CounterParameter" ->
            <<Padding("reserved", Const(4)),
              Num("counter", 4),
              Padding("padding", Pad("len", 8))>>
      [] s = "LocatorSetParameter" ->
            <<Items("locators", Lin("len", 0), 0),
              Padding("padding", Pad("len", 8))>>
      [] s = "PuzzleParameter" ->
            <<Num("index", 1),
              Num("lifetime", 1),
              Bytes("opaque", Const(2)),
              NumL("random", Lin("len", -4)),
              Padding("padding", Pad("len", 8))>>
      [] s = "SolutionParameter" ->
            <<Num("index", 1),
              Num("lifetime", 1),
              Bytes("opaque", Const(2)),
              NumL("random", Half("len", -4)),
              NumL("solution", Half("len", -4)),
              Padding("padding", Pad("len", 8))>>
      [] s = "SEQParameter" ->
            <<Num("update_id", 4),
              Padding("padding", Pad("len", 8))>>
      [] s = "ACKParameter" ->
            <<Items("update_id", Lin("len", 0), 4),
              Padding("padding", Pad("len", 8))>>
      [] s = "DHGroupListParameter" ->
            <<Items("groups", Lin("len", 0), 1),
              Padding("padding", Pad("len", 8))>>
      [] s = "DiffieHellmanParameter" ->
            <<Num("group", 1),
              Num("pub_len", 2),
              NumL("pub_val", Lin("pub_len", 0)),
              Padding("padding", Pad("len", 8))>>
      [] s = "HIPTransformParameter" ->
            <<Items("suites", Lin("len", 0), 2),
              Padding("padding", Pad("len", 8))>>
      [] s = "HIPCipherParameter" ->
            <<Items("ciphers", Lin("len", 0), 2),
              Padding("padding", Pad("len", 8))>>
      [] s = "NATTraversalModeParameter" ->
            <<Padding("reserved", Const(2)),
              Items("modes", Lin("len", -2), 1),
              Padding("padding", Pad("len", 8))>>
      [] s = "TransactionPacingParameter" ->
            <<Num("min_ta", 4),
              Padding("padding", Pad("len", 8))>>
      [] s = "EncryptedParameter" ->
            <<Padding("reserved", Const(4)),
              Cond("iv", 16, "__cipher__", {Enum_Cipher.AES_128_CBC, Enum_Cipher.AES_256_CBC}),
              Bytes("data", EncData),
              Padding("padding", Pad("len", 8))>>
      [] s = "HostIDParameter" ->
            <<Num("hi_len", 2),
              Bits("di_data", 4, <<4, 12>>),
              Num("algorithm", 2),
              Switch("hi", Lin("hi_len", 0)),
              Bytes("di", Lin("di_data", 0)),
              Padding("padding", Pad("len", 8))>>
      [] s = "HITSuiteListParameter" ->
            <<Items("suites", Lin("len", 0), 1),
              Padding("padding", Pad("len", 8))>>
      [] s = "CertParameter" ->
            <<Num("cert_group", 1),
              Num("cert_count", 1),
              Num("cert_id", 1),
              Num("cert_type", 1),
              Bytes("cert", Lin("len", -4)),
              Padding("padding", Pad("len", 8))>>
      [] s = "NotificationParameter" ->
            <<Padding("reserved", Const(2)),
              Num("msg_type", 2),
              Bytes("msg", Lin("len", -4)),
              Padding("padding", Pad("len", 8))>>
      [] s = "EchoRequestSignedParameter" ->
            <<Bytes("opaque", Lin("len", 0)),
              Padding("padding", Pad("len", 8))>>
      [] s = "RegInfoParameter" ->
            <<Num("min_lifetime", 1),
              Num("max_lifetime", 1),
              Items("reg_info", Lin("len", -2), 1),
              Padding("padding", Pad("len", 8))>>
      [] s = "RegRequestParameter" ->
            <<Num("lifetime", 1),
              Items("reg_request", Lin("len", -1), 1),
              Padding("padding", Pad("len", 8))>>
      [] s = "RegResponseParameter" ->
            <<Num("lifetime", 1),
              Items("reg_response", Lin("len", -1), 1),
              Padding("padding", Pad("len", 8))>>
      [] s = "RegFailedParameter" ->
            <<Num("lifetime", 1),
              Items("reg_failed", Lin("len", -1), 1),
              Padding("padding", Pad("len", 8))>>
      [] s = "RegFromParameter" ->
            <<Num("port", 2),
              Num("protocol", 1),
              Padding("reserved", Const(1)),
              Bytes("address", Const(16))>>
      [] s = "EchoResponseSignedParameter" ->
            <<Bytes("opaque", Lin("len", 0)),
              Padding("padding", Pad("len", 8))>>
      [] s = "TransportFormatListParameter" ->
            <<Items("formats", Lin("len", -2), 1),
              Padding("padding", Pad("len", 8))>>
      [] s = "ESPTransformParameter" ->
            <<Padding("reserved", Const(2)),
              Items("suites", Lin("len", -2), 1),
              Padding("padding", Pad("len", 8))>>
      [] s = "SeqDataParameter" ->
            <<Num("seq", 4),
              Padding("padding", Pad("len", 8))>>
      [] s = "AckDataParameter" ->
            <<Items("ack", Lin("len", 0), 4),
              Padding("padding", Pad("len", 8))>>
      [] s = "PayloadMICParameter" ->
            <<Num("next", 1),
              Padding("reserved", Const(3)),
              Bytes("payload", Const(4)),
              Bytes("mic", Lin("len", -8)),
              Padding("padding", Pad("len", 8))>>
      [] s = "TransactionIDParameter" ->
            <<NumL("id", Lin("len", 0)),
              Padding("padding", Pad("len", 8))>>
      [] s = "OverlayIDParameter" ->
            <<NumL("id", Lin("len", 0)),
              Padding("padding", Pad("len", 8))>>
      [] s = "RouteDstParameter" ->
            <<Bits("flags", 2, <<0, 1>>),
              Padding("reserved", Const(2)),
              Items("hit", Lin("len", -4), 16),
              Padding("padding", Pad("len", 8))>>
      [] s = "HIPTransportModeParameter" ->
            <<Num("port", 2),
              Items("mode", Lin("len", -2), 2),
              Padding("padding", Pad("len", 8))>>
      [] s = "HIPMACParameter" ->
            <<Bytes("hmac", Lin("len", 0)),
              Padding("padding", Pad("len", 8))>>
      [] s = "HIPMAC2Parameter" ->
            <<Bytes("hmac", Lin("len", 0)),
              Padding("padding", Pad("len", 8))>>
      [] s = "HIPSignature2Parameter" ->
            <<Num("algorithm", 2),
              Bytes("signature", Lin("len", -2)),
              Padding("padding", Pad("len", 8))>>
      [] s = "HIPSignatureParameter" ->
            <<Num("algorithm", 2),
              Bytes("signature", Lin("len", -2)),
              Padding("padding", Pad("len", 8))>>
      [] s = "EchoRequestUnsignedParameter" ->
            <<Bytes("opaque", Lin("len", 0)),
              Padding("padding", Pad("len", 8))>>
      [] s = "EchoResponseUnsignedParameter" ->
            <<Bytes("opaque", Lin("len", 0)),
              Padding("padding", Pad("len", 8))>>
      [] s = "RelayFromParameter" ->
            <<Num("port", 2),
              Num("protocol", 1),
              Padding("reserved", Const(1)),
              Bytes("address", Const(16))>>
      [] s = "RelayToParameter" ->
            <<Num("port", 2),
              Num("protocol", 1),
              Padding("reserved", Const(1)),
              Bytes("address", Const(16))>>
      [] s = "OverlayTTLParameter" ->
            <<Num("ttl", 2),
              Padding("reserved", Const(2)),
              Padding("padding", Pad("len", 8))>>
      [] s = "RouteViaParameter" ->
            <<Bits("flags", 2, <<0, 1>>),
              Padding("reserved", Const(2)),
              Items("hit", Lin("len", -4), 16),
              Padding("padding", Pad("len", 8))>>
      [] s = "FromParameter" ->
            <<Bytes("address", Const(16)),
              Padding("padding", Pad("len", 8))>>
      [] s = "RVSHMACParameter" ->
            <<Bytes("hmac", Lin("len", 0)),
              Padding("padding", Pad("len", 8))>>
      [] s = "ViaRVSParameter" ->
            <<Items("address", Lin("len", 0), 16),
              Padding("padding", Pad("len", 8))>>
      [] s = "RelayHMACParameter" ->
            <<Bytes("hmac", Lin("len", 0)),
              Padding("padding", Pad("len", 8))>>

\* A parameter schema: the fields of Parameter, then its own.
ParamFields(s) == ParameterHeader \o ParamBody(s)

\* ------------------------------------------------- PCAP-NG block schemas
\* UInt32Field(callback=byteorder_callback)
UInt32(name) == NumCb(name, 4, "byteorder")

\* The fields a block schema declares, after the block type.
BlockFields(s) ==
    CASE s = "UnknownBlock" ->
            <<UInt32("length"),
              Bytes("body", Lin("length", -12)),
              UInt32("length2")>>
      [] s = "SectionHeaderBlock" ->
            <<Match("match", 2, <<32, 32>>),
              NumCb("length", 4, "shb"),
              NumCb("magic", 4, "shb"),
              NumCb("major", 2, "shb"),
              NumCb("minor", 2, "shb"),
              NumCb("section_length", 8, "shb"),
              Opts("options", Lin("length", -28)),
              UInt32("length2")>>
      [] s = "InterfaceDescriptionBlock" ->
            <<UInt32("length"),
              NumCb("linktype", 2, "byteorder"),
              Padding("reserved", Const(2)),
              UInt32("snaplen"),
              Opts("options", Lin("length", -20)),
              UInt32("length2")>>
      [] s = "EnhancedPacketBlock" ->
            <<UInt32("length"),
              UInt32("interface_id"),
              UInt32("timestamp_high"),
              UInt32("timestamp_low"),
              UInt32("captured_len"),
              UInt32("original_len"),
              Payload("packet_data", Lin("captured_len", 0)),
              Padding("padding", Pad("captured_len", 4)),
              Opts("options", Rest("length", -32, "captured_len", "padding")),
              UInt32("length2")>>
      [] s = "SimplePacketBlock" ->
            <<UInt32("length"),
              UInt32("original_len"),
              Payload("packet_data", MinSnap),
              Padding("padding", Pad("packet_data", 4)),
              UInt32("length2")>>
      [] s = "NameResolutionBlock" ->
            <<NumCb("length", 2, "byteorder"),
              Opts("records", Lin("length", -12)),
              Opts("options", Lin("__length__", -4)),
              UInt32("length2")>>
      [] s = "InterfaceStatisticsBlock" ->
            <<UInt32("length"),
              UInt32("interface_id"),
              UInt32("timestamp_high"),
              UInt32("timestamp_low"),
              Opts("options", Rest("length", -20, "captured_len", "")),
              UInt32("length2")>>
      [] s = "SystemdJournalExportBlock" ->
            <<UInt32("length"),
              Bytes("entry", Lin("length", -12)),
              UInt32("length2")>>
      [] s = "DecryptionSecretsBlock" ->
            <<UInt32("length"),
              UInt32("secrets_type"),
              UInt32("secrets_length"),
              Switch("secrets_data", Lin("secrets_length", 0)),
              Bytes("padding", Pad("secrets_length", 4)),
              Opts("options", Rest("length", -20, "secrets_length", "padding")),
              UInt32("length2")>>
      [] s = "CustomBlock" ->
            <<UInt32("length"),
              UInt32("pen"),
              Bytes("data", Lin("length", -16)),
              UInt32("length2")>>
      [] s = "PacketBlock" ->
            <<UInt32("length"),
              UInt32("interface_id"),
              UInt32("drop_count"),
              UInt32("timestamp_high"),
              UInt32("timestamp_low"),
              UInt32("captured_length"),
              UInt32("original_length"),
              Payload("packet_data", Lin("captured_length", 0)),
              Bytes("padding", Pad("captured_length", 4)),
              Opts("options", Rest("length", -32, "captured_length", "padding")),
              UInt32("length2")>>

\* The block schemas pcapng_block_selector chooses from.
Blocks ==
    {"UnknownBlock", "SectionHeaderBlock", "InterfaceDescriptionBlock",
     "EnhancedPacketBlock", "SimplePacketBlock", "NameResolutionBlock",
     "InterfaceStatisticsBlock", "SystemdJournalExportBlock",
     "DecryptionSecretsBlock", "CustomBlock", "PacketBlock"}

\* Which post_process a block schema runs: that of BlockType, which compares
\* the two lengths; that of the section header, which calls it and then sets
\* the byte order; or an override that does not call it.
PostProcessOf(s) ==
    CASE s = "SectionHeaderBlock" -> "shb"
      [] s \in {"NameResolutionBlock", "SystemdJournalExportBlock"} -> "own"
      [] OTHER -> "BlockType"

\* ------------------------------------------------------------- ListField
\* The values an unsigned item field of n bytes holds, at its edges.
ItemValues(n) == {0, 1, Pow256(n) - 1}

\* Lists of at most n elements of S.
SeqsUpTo(S, n) == UNION {[1..k -> S] : k \in 0..n}

\* item_type.pack(item, packet) and field.unpack(buffer, packet) of the item.
PackItem(x, n) == ToBytes(x, n)
UnpackItem(bs) == FromBytes(bs)

JoinItemsReversed(acc, bs) == bs \o acc
\* temp.append(...) for each item, then b''.join(temp).
JoinItems(acc, bs) == acc \o bs

RECURSIVE PackFrom(_, _, _, _)
PackFrom(v, n, i, acc) ==
    IF i > Len(v) THEN acc
    ELSE PackFrom(v, n, i + 1, JoinItems(acc, PackItem(v[i], n)))

\* ListField.pack(value, packet) with an item type.
PackList(v, n) == PackFrom(v, n, 1, <<>>)

ListOvershootNever(l) == FALSE
\* "if length < 0: raise FieldValueError" of ListField.unpack.
ListOvershoot(l) == l < 0

\* ListField.pack: the value list becomes the buffer; the stream may go on
\* after the field's own bytes.
ListPack ==
    /\ pc = "idle"
    /\ \E n \in 1..MaxItemLen :
       \E v \in SeqsUpTo(ItemValues(n), MaxItems) :
       \E rest \in {<<>>, Zeros(MaxBudget)} :
          /\ value' = v
          /\ itemlen' = n
          /\ file' = PackList(v, n) \o rest
    /\ op' = "list"
    /\ pc' = "packed"
    /\ UNCHANGED <<pos, budget, length, temp, err, meta, registry>>
    /\ UNCHANGED <<walkVars, mhVars>>
    /\ UNCHANGED restVars

\* ListField.__call__ resolves the byte budget, unpack starts on it. The
\* buffer holds the budget: the schema hands the field a stream positioned at
\* the field.
ListCall ==
    /\ pc = "packed"
    /\ op = "list"
    /\ \E l \in -1..MaxBudget :
          /\ l <= Len(file)
          /\ budget' = l
          /\ length' = l
    /\ pos' = 0
    /\ temp' = <<>>
    /\ pc' = "loop"
    /\ UNCHANGED <<op, value, itemlen, file, err, meta, registry>>
    /\ UNCHANGED <<walkVars, mhVars>>
    /\ UNCHANGED restVars

\* One turn of "while length:" in ListField.unpack.
ListUnpackItem ==
    /\ pc = "loop"
    /\ op = "list"
    /\ length # 0
    /\ LET l == length - itemlen
           buffer == Read(file, pos, itemlen)
       IN  /\ length' = l
           /\ IF ListOvershoot(l)
              THEN /\ pc' = "raised"
                   /\ err' = "FieldValueError"
                   /\ UNCHANGED <<pos, temp>>
              ELSE /\ pos' = pos + Len(buffer)
                   /\ temp' = Append(temp, UnpackItem(buffer))
                   /\ UNCHANGED <<pc, err>>
    /\ UNCHANGED <<op, value, itemlen, file, budget, meta, registry>>
    /\ UNCHANGED <<walkVars, mhVars>>
    /\ UNCHANGED restVars

\* "return temp" of ListField.unpack, once the budget is used up.
ListReturn ==
    /\ pc = "loop"
    /\ op = "list"
    /\ length = 0
    /\ pc' = "returned"
    /\ UNCHANGED <<op, value, itemlen, file, pos, budget, length, temp, err,
                   meta, registry>>
    /\ UNCHANGED <<walkVars, mhVars>>
    /\ UNCHANGED restVars

\* ------------------------------------------------------------ OptionField
EmptyPacket == [k \in {} |-> 0]

\* The parameters of the streams: type number and "len". 65534 is a type
\* the registry has no entry for.
ParamInputs ==
    {<<Enum_Parameter.ESP_INFO, 12>>, <<Enum_Parameter.SEQ, 4>>,
     <<Enum_Parameter.ACK, 8>>, <<Enum_Parameter.HIP_MAC, 3>>,
     <<65534, 0>>, <<65534, 5>>}

\* registry[code] of a defaultdict: the schema stored for the code, the
\* default UnassignedParameter when there is none.
RegistryGet(reg, code) ==
    IF code \in DOMAIN reg THEN reg[code] ELSE "UnassignedParameter"

\* The registry after registry[code]: a missing key is stored with the default.
RegistryAfter(reg, code) ==
    IF code \in DOMAIN reg THEN reg ELSE Put(reg, code, "UnassignedParameter")

\* A parameter on the wire: its header, then as many bytes as its schema
\* reads for that header.
ParamBytes(in) ==
    LET head == ToBytes(in[1], 2) \o ToBytes(in[2], 2)
        long == head \o Zeros(MaxLen + 24)
        r == Unpack(ParamFields(RegistryGet(HIPRegistry, in[1])), long, 0,
                    EmptyPacket, Len(long))
    IN  SubSeq(long, 1, r.pos)

RECURSIVE Flatten(_)
Flatten(ss) == IF ss = <<>> THEN <<>> ELSE Head(ss) \o Flatten(Tail(ss))

NoRewind(p, n) == p
\* file.seek(-len(meta), io.SEEK_CUR): back to the beginning of the option.
Rewind(p, n) == p - n

\* A stream of parameters reaches the OptionField; the packet may go on after
\* them.
OptionPack ==
    /\ pc = "idle"
    /\ \E ps \in SeqsUpTo(ParamInputs, MaxParams) :
       \E rest \in {<<>>, Zeros(8)} :
          file' = Flatten([i \in 1..Len(ps) |-> ParamBytes(ps[i])]) \o rest
    /\ op' = "option"
    /\ pc' = "packed"
    /\ UNCHANGED <<value, itemlen, pos, budget, length, temp, err, meta, registry>>
    /\ UNCHANGED <<walkVars, mhVars>>
    /\ UNCHANGED restVars

\* OptionField.__call__ resolves the byte budget, unpack starts on it.
OptionCall ==
    /\ pc = "packed"
    /\ op = "option"
    /\ \E l \in 0..Len(file) :
          /\ l % 4 = 0
          /\ budget' = l
          /\ length' = l
    /\ pos' = 0
    /\ temp' = <<>>
    /\ pc' = "loop"
    /\ UNCHANGED <<op, value, itemlen, file, err, meta, registry>>
    /\ UNCHANGED <<walkVars, mhVars>>
    /\ UNCHANGED restVars

\* One turn of "while length:" in OptionField.unpack.
OptionUnpackItem ==
    /\ pc = "loop"
    /\ op = "option"
    /\ length # 0
    /\ LET m == Unpack(ParameterHeader, file, pos, EmptyPacket, length)
       IN  IF m.err # "none"
           THEN /\ pc' = "raised"
                /\ err' = m.err
                /\ UNCHANGED <<pos, length, temp, meta, registry>>
           ELSE LET code == m.pkt["type"]
                    schema == RegistryGet(registry, code)
                    start == Rewind(m.pos, m.pos - pos)
                    d == Unpack(ParamFields(schema), file, start, EmptyPacket, length)
                    size == d.pos - start
                IN  /\ meta' = m.pkt
                    /\ registry' = RegistryAfter(registry, code)
                    /\ IF d.err # "none"
                       THEN /\ pc' = "raised"
                            /\ err' = d.err
                            /\ UNCHANGED <<pos, length, temp>>
                       ELSE /\ pos' = d.pos
                            /\ temp' = Append(temp, [schema |-> schema, start |-> start,
                                                     size |-> size, pkt |-> d.pkt])
                            /\ length' = length - size
                            /\ UNCHANGED <<pc, err>>
    /\ UNCHANGED <<op, value, itemlen, file, budget>>
    /\ UNCHANGED <<walkVars, mhVars>>
    /\ UNCHANGED restVars

\* "return temp" of OptionField.unpack.
OptionReturn ==
    /\ pc = "loop"
    /\ op = "option"
    /\ length = 0
    /\ pc' = "returned"
    /\ UNCHANGED <<op, value, itemlen, file, pos, budget, length, temp, err,
                   meta, registry>>
    /\ UNCHANGED <<walkVars, mhVars>>
    /\ UNCHANGED restVars

\* ------------------------------------------- unpacking a PCAP-NG block
Pad4(n) == (4 - (n % 4)) % 4

\* What the writer of a block puts in a field: d bytes of packet or secrets
\* data, o bytes of options, records or opaque body, the byte-order magic.
Intended(name, d, o, magic) ==
    CASE name \in {"captured_len", "original_len", "captured_length",
                   "original_length", "packet_data", "secrets_length",
                   "secrets_data"} -> d
      [] name = "padding" -> Pad4(d)
      [] name \in {"options", "records", "body", "entry", "data"} -> o
      [] name = "magic" -> magic
      [] name = "major" -> 1
      [] OTHER -> 0

\* The bytes a field takes on the wire. The block total length is a 32-bit
\* number in every block of the format.
WireSize(fd, d, o) ==
    CASE fd.kind = "match" -> 0
      [] fd.kind = "num" -> (IF fd.name = "length" THEN 4 ELSE fd.len.a)
      [] fd.len.kind = "const" -> fd.len.a
      [] OTHER -> Intended(fd.name, d, o, 0)

RECURSIVE SumSizes(_, _, _, _)
SumSizes(fields, i, d, o) ==
    IF i > Len(fields) THEN 0
    ELSE WireSize(fields[i], d, o) + SumSizes(fields, i + 1, d, o)

\* The block total length: the block type, then the fields.
TotalLength(s, d, o) == 4 + SumSizes(BlockFields(s), 1, d, o)

\* int.to_bytes(x, n, order)
Encode(x, n, order) == IF order = "little" THEN Reverse(ToBytes(x, n)) ELSE ToBytes(x, n)

\* n bytes of a journal entry: lines of text "A=1".
RECURSIVE JournalText(_)
JournalText(n) == IF n < 4 THEN Zeros(n) ELSE <<65, 61, 49, 10>> \o JournalText(n - 4)

\* The bytes of one field of a block written in the byte order "order", the
\* trailing length being off by delta.
FieldBytes(s, fd, d, o, magic, delta, order) ==
    CASE fd.kind = "match" -> <<>>
      [] fd.kind = "num" /\ fd.name = "length" ->
            Encode(TotalLength(s, d, o), 4, order)
      [] fd.kind = "num" /\ fd.name = "length2" ->
            Encode(TotalLength(s, d, o) + delta, 4, order)
      [] fd.kind = "num" ->
            Encode(Intended(fd.name, d, o, magic), fd.len.a, order)
      [] fd.name = "entry" -> JournalText(WireSize(fd, d, o))
      [] OTHER -> Zeros(WireSize(fd, d, o))

\* A block on the wire, after its block type.
BlockBytes(s, d, o, magic, delta, order) ==
    Flatten([i \in 1..Len(BlockFields(s)) |->
                FieldBytes(s, BlockFields(s)[i], d, o, magic, delta, order)])

\* The context a block is unpacked on: the byte order of the section when
\* the reader passes one, and the length budget.
BlockContext(ctx, len) ==
    IF ctx = "none" THEN Put(EmptyPacket, "__length__", len)
    ELSE Put(Put(EmptyPacket, "byteorder", ctx), "__length__", len)

\* A block reaches its schema. A section header block opens a section of
\* either byte order, whatever the order of the section before it; any other
\* block is read in the order of its section.
BlockStart ==
    /\ pc = "idle"
    /\ \E s \in Blocks, order \in {"big", "little"}, h \in {"big", "little"},
          d \in {0, MaxData - 1, MaxData}, o \in {0, 4}, delta \in {0, 4} :
       \E ctx \in (IF s = "SectionHeaderBlock" THEN {"none", "big", "little"}
                   ELSE {order}),
          w \in (IF s = "SectionHeaderBlock" THEN BOOLEAN ELSE {FALSE}),
          magic \in (IF s = "SectionHeaderBlock" THEN {BigMagic, 1} ELSE {0}) :
          LET wire == BlockBytes(s, d, o, magic, delta, order)
          IN  /\ file' = wire
              /\ cls' = s
              /\ packet' = BlockContext(ctx, Len(wire))
              /\ platform' = [host |-> h, wide |-> w]
              /\ sent' = [order |-> order, magic |-> magic,
                          length |-> TotalLength(s, d, o),
                          length2 |-> TotalLength(s, d, o) + delta]
    /\ op' = "block"
    /\ pc' = "fields"
    /\ idx' = 1
    /\ pos' = 0
    /\ UNCHANGED <<err, block>>
    /\ UNCHANGED <<fieldVars, mhVars>>
    /\ UNCHANGED restVars

\* ------------------------------------------- unpacking a HIP parameter
\* The parameter schemas: those of the registry, RegResponseParameter, which
\* the registry does not list, and the default.
ParamClasses ==
    {ParamSchemas[k] : k \in DOMAIN ParamSchemas}
        \cup {"RegResponseParameter", "UnassignedParameter"}

\* The type number a parameter of a schema is sent with.
TypeOf(s) ==
    CASE s = "UnassignedParameter" -> 65534
      [] s = "RegResponseParameter" -> Enum_Parameter.REG_RESPONSE
      [] OTHER -> Enum_Parameter[CHOOSE k \in DOMAIN ParamSchemas : ParamSchemas[k] = s]

\* The parsed options a parameter can find in its context: the cipher id
\* lists of the HIP_CIPHER parameters read before it, and the number of
\* ENCRYPTED parameters read before it.
CipherLists ==
    {<<>>, <<<<Enum_Cipher.AES_128_CBC>>>>,
     <<<<Enum_Cipher.NULL_ENCRYPT, Enum_Cipher.AES_256_CBC>>>>,
     <<<<Enum_Cipher.NULL_ENCRYPT>>, <<Enum_Cipher.AES_128_CBC>>>>}

OptionContexts == [ciphers : CipherLists, encrypted : 0..MaxParams]

\* pre_unpack: EncryptedParameter stores the cipher under "__cipher__" when
\* the context has "options"; no other parameter schema has one.
PreUnpack(s, pkt) ==
    IF s = "EncryptedParameter" /\ "options" \in DOMAIN pkt
    THEN LET cipher_list == pkt["options"].ciphers
             encrypted_index == pkt["options"].encrypted
         IN  IF cipher_list # <<>>
             THEN Put(pkt, "__cipher__", 65535)
             ELSE LET cipher_ids == Flatten(cipher_list)
                  IN  IF encrypted_index >= Len(cipher_ids)
                      THEN Put(pkt, "__cipher__", 65534)
                      ELSE Put(pkt, "__cipher__", cipher_ids[encrypted_index + 1])
    ELSE pkt

\* A parameter reaches its schema.
ParamStart ==
    /\ pc = "idle"
    /\ \E s \in ParamClasses, l \in 0..MaxLen :
       \E ctx \in (IF s = "EncryptedParameter"
                   THEN {<<>>} \cup {<<c>> : c \in OptionContexts} ELSE {<<>>}) :
          LET wire == ToBytes(TypeOf(s), 2) \o ToBytes(l, 2) \o Zeros(MaxLen + 24)
              given == IF Len(ctx) = 0 THEN EmptyPacket
                       ELSE Put(EmptyPacket, "options", ctx[1])
          IN  /\ file' = wire
              /\ cls' = s
              /\ packet' = PreUnpack(s, Put(given, "__length__", Len(wire)))
              /\ sent' = [type |-> TypeOf(s), len |-> l]
    /\ platform' = [host |-> "big", wide |-> FALSE]
    /\ op' = "param"
    /\ pc' = "fields"
    /\ idx' = 1
    /\ pos' = 0
    /\ UNCHANGED <<err, block>>
    /\ UNCHANGED <<fieldVars, mhVars>>
    /\ UNCHANGED restVars

\* ------------------------------------- name-resolution records of an NRB
\* Enum_RecordType: the record types the records registry knows.
Enum_RecordType == [nrb_record_end |-> 0, nrb_record_ipv4 |-> 1, nrb_record_ipv6 |-> 2]

\* The header every record starts with: type and length in the byte order
\* of the section.
RecordHeader == <<NumCb("type", 2, "byteorder"), NumCb("length", 2, "byteorder")>>

\* The fields of the record schemas after the header.
RecordBody(s) ==
    CASE s = "UnknownRecord" ->
            <<Bytes("data", Lin("length", 0)),
              Padding("padding", Pad("length", 4))>>
      [] s = "EndRecord" -> <<>>
      [] s = "IPv4Record" ->
            <<Addr("ip", 4),
              Str("resol", Lin("length", -4)),
              Padding("padding", Pad("length", 4))>>
      [] s = "IPv6Record" ->
            <<Addr("ip", 16),
              Str("resol", Lin("length", -4)),
              Padding("padding", Pad("length", 4))>>

RecordClasses == {"UnknownRecord", "EndRecord", "IPv4Record", "IPv6Record"}

RecordFields(s) == RecordHeader \o RecordBody(s)

\* str.split(sep) on a string given as its code points: the pieces between
\* the separators, an empty piece included where the string starts or ends
\* with one.
RECURSIVE SplitFrom(_, _, _, _)
SplitFrom(str, sep, i, piece) ==
    IF i > Len(str) THEN <<piece>>
    ELSE IF str[i] = sep THEN <<piece>> \o SplitFrom(str, sep, i + 1, <<>>)
    ELSE SplitFrom(str, sep, i + 1, Append(piece, str[i]))

Split(str, sep) == SplitFrom(str, sep, 1, <<>>)

\* "host.example\x00" and 192.0.2.1
HostExample == <<104, 111, 115, 116, 46, 101, 120, 97, 109, 112, 108, 101, 0>>
ExampleIP == <<192, 0, 2, 1>>

\* The resolution strings a record is sent with: NUL-terminated names over
\* two letters, strings the writer did not terminate, and the example.
Resols == SeqsUpTo({0, 97, 98}, MaxName) \cup {HostExample}

\* The address bytes, the type number and the length field a well-formed
\* record of a schema has for a resolution string.
RecordIP(s) ==
    CASE s = "IPv4Record" -> ExampleIP
      [] s = "IPv6Record" -> ExampleIP \o Zeros(12)
      [] OTHER -> <<>>

RecordType(s) ==
    CASE s = "EndRecord" -> Enum_RecordType.nrb_record_end
      [] s = "IPv4Record" -> Enum_RecordType.nrb_record_ipv4
      [] s = "IPv6Record" -> Enum_RecordType.nrb_record_ipv6
      [] OTHER -> 3

\* A record of the block's record list reaches its schema; the end record
\* and the block's trailing length follow it in the buffer.
RecordStart ==
    /\ pc = "idle"
    /\ \E s \in RecordClasses, order \in {"big", "little"}, str \in Resols :
          LET body == IF s = "EndRecord" THEN <<>> ELSE RecordIP(s) \o str
              wire == Encode(RecordType(s), 2, order) \o Encode(Len(body), 2, order)
                        \o body \o Zeros(Pad4(Len(body))) \o Zeros(8)
          IN  /\ s = "EndRecord" => str = <<>>
              /\ file' = wire
              /\ cls' = s
              /\ packet' = BlockContext(order, Len(wire))
              /\ sent' = [type |-> RecordType(s), length |-> Len(body),
                          ip |-> RecordIP(s), resol |-> str, order |-> order]
    /\ platform' = [host |-> "big", wide |-> FALSE]
    /\ op' = "record"
    /\ pc' = "fields"
    /\ idx' = 1
    /\ pos' = 0
    /\ UNCHANGED <<err, block>>
    /\ UNCHANGED <<fieldVars, mhVars>>
    /\ UNCHANGED restVars

\* ------------------------------------------------------ PCAP-NG options
\* The header every option starts with: type and length in the byte order
\* of the section.
OptionHeader == <<NumCb("type", 2, "byteorder"), NumCb("length", 2, "byteorder")>>

\* The padding every padded option declares.
OptionPadding == Padding("padding", Pad("length", 4))

\* The options whose value is one string or byte string of "length" bytes,
\* then padding.
TextOptions ==
    [UnknownOption |-> "data", CommentOption |-> "comment", IF_NameOption |-> "name",
     IF_DescriptionOption |-> "description", IF_OSOption |-> "os",
     IF_HardwareOption |-> "hardware"]

\* The options whose value is one field of fixed size, then padding.
FixedOptions ==
    [IF_IPv4AddrOption |-> Addr("interface", 8),
     IF_IPv6AddrOption |-> Addr("interface", 17),
     IF_MACAddrOption |-> Bytes("interface", Const(6)),
     IF_EUIAddrOption |-> Bytes("interface", Const(8)),
     IF_SpeedOption |-> NumCb("speed", 8, "byteorder"),
     IF_TSResolOption |-> Bits("tsresol", 1, <<1, 7>>),
     IF_TZoneOption |-> NumCb("tzone", 4, "byteorder"),
     IF_FCSLenOption |-> NumCb("fcslen", 1, "byteorder"),
     IF_TSOffsetOption |-> NumCb("tsoffset", 8, "byteorder"),
     IF_TxSpeedOption |-> NumCb("tx_speed", 8, "byteorder"),
     IF_RxSpeedOption |-> NumCb("rx_speed", 8, "byteorder"),
     EPB_FlagsOption |-> Bits("flags", 4, <<0, 2>>),
     EPB_DropCountOption |-> NumCb("drop_count", 8, "byteorder"),
     EPB_PacketIDOption |-> NumCb("packet_id", 8, "byteorder"),
     EPB_QueueOption |-> NumCb("queue_id", 4, "byteorder"),
     PACK_FlagsOption |-> Bits("flags", 4, <<0, 2>>)]

\* The options whose value is a one-byte code and "length" - 1 bytes, then
\* padding.
CodedOptions ==
    [IF_FilterOption |-> <<"code", "filter">>, EPB_HashOption |-> <<"func", "data">>,
     EPB_VerdictOption |-> <<"verdict", "value">>, PACK_HashOption |-> <<"func", "data">>]

\* The options of name resolution and interface statistics blocks, which
\* declare no padding.
BareOptions ==
    [NS_DNSNameOption |-> <<Str("name", Lin("length", 0))>>,
     NS_DNSIP4AddrOption |-> <<Addr("ip", 4)>>,
     NS_DNSIP6AddrOption |-> <<Addr("ip", 16)>>,
     ISB_StartTimeOption |-> <<NumCb("timestamp_high", 4, "byteorder"),
                               NumCb("timestamp_low", 4, "byteorder")>>,
     ISB_EndTimeOption |-> <<NumCb("timestamp_high", 4, "byteorder"),
                             NumCb("timestamp_low", 4, "byteorder")>>,
     ISB_IFRecvOption |-> <<NumCb("packets", 8, "byteorder")>>,
     ISB_IFDropOption |-> <<NumCb("packets", 8, "byteorder")>>,
     ISB_FilterAcceptOption |-> <<NumCb("packets", 8, "byteorder")>>,
     ISB_OSDropOption |-> <<NumCb("packets", 8, "byteorder")>>,
     ISB_UsrDelivOption |-> <<NumCb("packets", 8, "byteorder")>>]

OptionClasses ==
    DOMAIN TextOptions \cup DOMAIN FixedOptions \cup DOMAIN CodedOptions
        \cup DOMAIN BareOptions \cup {"EndOfOption", "CustomOption"}

\* The fields of the option schemas after the header.
OptionBody(s) ==
    CASE s \in DOMAIN TextOptions ->
            <<IF s = "UnknownOption" THEN Bytes(TextOptions[s], Lin("length", 0))
              ELSE Str(TextOptions[s], Lin("length", 0)), OptionPadding>>
      [] s \in DOMAIN FixedOptions -> <<FixedOptions[s], OptionPadding>>
      [] s \in DOMAIN CodedOptions ->
            <<NumCb(CodedOptions[s][1], 1, "byteorder"),
              Bytes(CodedOptions[s][2], Lin("length", -1)), OptionPadding>>
      [] s \in DOMAIN BareOptions -> BareOptions[s]
      [] s = "CustomOption" ->
            <<NumCb("pen", 4, "byteorder"), Bytes("data", Lin("length", -4)),
              OptionPadding>>
      [] s = "EndOfOption" -> <<>>

OptionFields(s) == OptionHeader \o OptionBody(s)

\* The length fields an option of a schema is sent with: the size of its
\* value when that is fixed, every length from its fixed part up otherwise.
OptionLengths(s) ==
    CASE s \in DOMAIN TextOptions \cup {"NS_DNSNameOption"} -> 0..MaxValue
      [] s \in DOMAIN CodedOptions -> 1..MaxValue
      [] s = "CustomOption" -> 4..(4 + MaxValue)
      [] s = "EndOfOption" -> {0}
      [] s \in DOMAIN FixedOptions -> {Eval(FixedOptions[s].len, EmptyPacket)}
      [] OTHER -> {SumSizes(BareOptions[s], 1, 0, 0)}

\* The type number an option is sent with: opt_endofopt, opt_comment,
\* opt_custom, and for the others the first number of a block's own options.
OptionCode(s) ==
    CASE s = "EndOfOption" -> 0
      [] s = "CommentOption" -> 1
      [] s = "CustomOption" -> 2988
      [] OTHER -> 2

\* An option of a block's option list reaches its schema; the end of
\* options and the block's trailing length follow it in the buffer.
OptionStart ==
    /\ pc = "idle"
    /\ \E s \in OptionClasses, order \in {"big", "little"} :
       \E l \in OptionLengths(s) :
          LET wire == Encode(OptionCode(s), 2, order) \o Encode(l, 2, order)
                        \o Zeros(l + Pad4(l)) \o Zeros(8)
          IN  /\ file' = wire
              /\ cls' = s
              /\ packet' = BlockContext(order, Len(wire))
              /\ sent' = [type |-> OptionCode(s), length |-> l, order |-> order]
    /\ platform' = [host |-> "big", wide |-> FALSE]
    /\ op' = "opt"
    /\ pc' = "fields"
    /\ idx' = 1
    /\ pos' = 0
    /\ UNCHANGED <<err, block>>
    /\ UNCHANGED <<fieldVars, mhVars>>
    /\ UNCHANGED restVars

\* MultiDict.add(key, value) for every name of the record, in order.
AddAll(key, names, keyFirst) ==
    [i \in 1..Len(names) |->
        IF keyFirst THEN <<key, names[i]>> ELSE <<names[i], key>>]

\* NameResolutionBlock.post_process over the block's records, here the one
\* record read: the forward and the reverse mapping.
NRBPostProcess ==
    /\ pc = "returned"
    /\ op = "record"
    /\ LET named == cls \in {"IPv4Record", "IPv6Record"}
       IN  nrb' = [mapping |->
                      IF named THEN AddAll(packet["ip"], block["names"], TRUE)
                      ELSE <<>>,
                   reverse_mapping |->
                      IF named THEN AddAll(packet["ip"], block["names"], FALSE)
                      ELSE <<>>]
    /\ pc' = "mapped"
    /\ UNCHANGED <<op, file, pos, err>>
    /\ UNCHANGED <<fieldVars, walkVars, mhVars, toolVars>>
    /\ UNCHANGED <<enum, members, found>>
    /\ UNCHANGED condVars
    /\ UNCHANGED callVars

\* ------------------------------------------------ bit field namespaces
\* A bit field of a schema: its length in bytes and its namespace, every
\* sub-field as <<name, offset, width>>.
BitField(schema, name, len, namespace) ==
    [schema |-> schema, name |-> name, length |-> len, namespace |-> namespace]

EPBFlags ==
    {<<"direction", 0, 2>>, <<"reception", 2, 3>>, <<"fcs_len", 5, 4>>,
     <<"crc_error", 24, 1>>, <<"too_long", 25, 1>>, <<"too_short", 26, 1>>,
     <<"gap_error", 27, 1>>, <<"unaligned_error", 28, 1>>,
     <<"delimiter_error", 29, 1>>, <<"preamble_error", 30, 1>>,
     <<"symbol_error", 31, 1>>}

\* The bit fields the PCAP-NG and HIP schemas declare.
BitFields ==
    {BitField("SectionHeaderBlock", "match", 2, {<<"byteorder", 32, 32>>}),
     BitField("IF_TSResolOption", "tsresol", 1,
              {<<"flag", 0, 1>>, <<"resolution", 1, 7>>}),
     BitField("EPB_FlagsOption", "flags", 4, EPBFlags),
     BitField("PACK_FlagsOption", "flags", 4, EPBFlags),
     BitField("Locator", "flags", 1, {<<"preferred", 7, 1>>}),
     BitField("HostIDParameter", "di_data", 4, {<<"type", 0, 4>>, <<"len", 4, 12>>}),
     BitField("RouteDstParameter", "flags", 2,
              {<<"symmetric", 0, 1>>, <<"must_follow", 1, 1>>}),
     BitField("RouteViaParameter", "flags", 2,
              {<<"symmetric", 0, 1>>, <<"must_follow", 1, 1>>}),
     BitField("HIP", "pkt", 1, {<<"bit_0", 0, 1>>, <<"type", 1, 7>>}),
     BitField("HIP", "ver", 1, {<<"version", 0, 4>>, <<"bit_1", 7, 1>>}),
     BitField("HIP", "control", 2, {<<"anonymous", 15, 1>>})}

\* ------------------------------------------------ Schema.unpack, by field
\* The fields of the schema being unpacked.
Fields ==
    CASE op = "block" -> BlockFields(cls)
      [] op = "record" -> RecordFields(cls)
      [] op = "opt" -> OptionFields(cls)
      [] OTHER -> ParamFields(cls)

\* Schema.unpack binds the next field.
SchemaBind ==
    /\ pc = "fields"
    /\ op \in {"block", "param", "record", "opt"}
    /\ idx <= Len(Fields)
    /\ LET r == Bind(Fields[idx], file, pos, packet, platform)
       IN  IF r.err # "none"
           THEN /\ pc' = "raised"
                /\ err' = r.err
                /\ UNCHANGED <<pos, packet, idx>>
           ELSE /\ pos' = r.pos
                /\ packet' = r.pkt
                /\ idx' = idx + 1
                /\ UNCHANGED <<pc, err>>
    /\ UNCHANGED <<op, file, cls, platform, sent, block>>
    /\ UNCHANGED <<fieldVars, mhVars>>
    /\ UNCHANGED restVars

\* post_process of the schema: the exception it raises, "none" when it
\* returns the instance.
PostProcessError(s, pkt) ==
    CASE PostProcessOf(s) = "BlockType" ->
            (IF pkt["length"] # pkt["length2"] THEN "ProtocolError" ELSE "none")
      [] PostProcessOf(s) = "shb" ->
            (IF pkt["length"] # pkt["length2"] THEN "ProtocolError"
             ELSE IF pkt["match"] \notin {BigMagic, LittleMagic} THEN "ProtocolError"
             ELSE "none")
      [] OTHER -> "none"

\* The attributes post_process sets on the instance it returns.
PostProcessAttrs(s, pkt) ==
    CASE s = "SectionHeaderBlock" ->
            Put(EmptyPacket, "byteorder",
                IF pkt["match"] = BigMagic THEN "big" ELSE "little")
      [] s = "EncryptedParameter" -> Put(EmptyPacket, "cipher", pkt["__cipher__"])
      [] s \in {"IPv4Record", "IPv6Record"} ->
            Put(EmptyPacket, "names", Split(pkt["resol"], 0))
      [] OTHER -> EmptyPacket

\* Schema.unpack ends: every field is bound, post_process runs.
SchemaPostProcess ==
    /\ pc = "fields"
    /\ op \in {"block", "param", "record", "opt"}
    /\ idx > Len(Fields)
    /\ LET e == IF op = "block" THEN PostProcessError(cls, packet) ELSE "none"
       IN  IF e # "none"
           THEN /\ pc' = "raised"
                /\ err' = e
                /\ UNCHANGED block
           ELSE /\ pc' = "returned"
                /\ block' = PostProcessAttrs(cls, packet)
                /\ UNCHANGED err
    /\ UNCHANGED <<op, file, pos, cls, idx, packet, platform, sent>>
    /\ UNCHANGED <<fieldVars, mhVars>>
    /\ UNCHANGED restVars

\* ------------------------------------------- Mobility Header options
\* MH.__option__: the option types and the name of their reader and
\* constructor; a type it does not list gets "none".
OptionKinds ==
    [Pad1 |-> "pad", PadN |-> "pad", Binding_Refresh_Advice |-> "bra",
     Alternate_Care_of_Address |-> "aca", Nonce_Indices |-> "ni",
     Authorization_Data |-> "bad", Mobile_Network_Prefix_Option |-> "mnp",
     Mobility_Header_Link_Layer_Address_option |-> "lla",
     MN_ID_OPTION_TYPE |-> "mn_id", AUTH_OPTION_TYPE |-> "auth",
     MESG_ID_OPTION_TYPE |-> "mesg_id", CGA_Parameters_Request |-> "cga_pr"]

KindOf(type) == IF type \in DOMAIN OptionKinds THEN OptionKinds[type] ELSE "none"

\* The bytes an option schema of a kind has in its variable part (data,
\* link-layer address, identifier) when its length field is n: what is left
\* after the fixed fields the length counts.
DataLen(kind, n) ==
    CASE kind \in {"none", "bad"} -> n
      [] kind \in {"lla", "mn_id"} -> n - 1
      [] kind = "auth" -> n - 5
      [] OTHER -> 0

Result(e, r, w) == [err |-> e, out |-> r, warned |-> w]

\* The data record of an option: its type, the length read gives it, and
\* the bytes of its variable part.
Record(s, n) == [type |-> s.type, length |-> n, datalen |-> s.datalen]

\* meth(schema, options=options) for the reader _read_opt_<kind>.
ReadOpt(kind, s) ==
    CASE kind = "none" -> Result("TypeError", EmptyPacket, FALSE)
      [] kind = "pad" ->
            (IF s.type \notin {"Pad1", "PadN"}
             THEN Result("ProtocolError", EmptyPacket, FALSE)
             ELSE IF s.type = "Pad1" /\ s.length # 0
             THEN Result("ProtocolError", EmptyPacket, FALSE)
             ELSE IF s.type = "PadN" /\ s.length = 0
             THEN Result("ProtocolError", EmptyPacket, FALSE)
             ELSE Result("none",
                         Record(s, IF s.type = "Pad1" THEN 1 ELSE s.length + 2),
                         FALSE))
      [] kind = "bra" /\ s.length # 2 -> Result("ProtocolError", EmptyPacket, FALSE)
      [] kind = "aca" /\ s.length # 16 -> Result("ProtocolError", EmptyPacket, FALSE)
      [] kind = "ni" /\ s.length # 4 -> Result("ProtocolError", EmptyPacket, FALSE)
      [] kind = "bad" /\ s.length % 8 # 0 -> Result("ProtocolError", EmptyPacket, FALSE)
      [] kind = "mnp" /\ s.length # 18 -> Result("ProtocolError", EmptyPacket, FALSE)
      [] kind = "lla" /\ s.code # "MH" -> Result("ProtocolError", EmptyPacket, FALSE)
      [] kind = "auth" /\ (s.length + 1) % 4 # 0 ->
            Result("ProtocolError", EmptyPacket, FALSE)
      [] kind = "mesg_id" /\ s.length % 8 # 0 ->
            Result("ProtocolError", EmptyPacket, FALSE)
      [] kind = "cga_pr" /\ s.length # 0 -> Result("ProtocolError", EmptyPacket, FALSE)
      [] OTHER -> Result("none", Record(s, s.length + 2), FALSE)

\* The option schema a constructor returns.
Made(type, n, d) == [type |-> type, length |-> n, datalen |-> d.datalen]

\* _make_opt_<kind>(type, option) on a data record.
MakeOpt(kind, type, d) ==
    CASE kind = "none" -> Result("none", Made(type, d.datalen, d), FALSE)
      [] kind = "pad" ->
            LET n == d.length
                w1 == type = "Pad1" /\ n # 0
                t1 == IF w1 THEN "PadN" ELSE type
                w2 == t1 = "PadN" /\ n = 0
                t2 == IF w2 THEN "Pad1" ELSE t1
            IN  Result("none", Made(t2, n, d), w1 \/ w2)
      [] kind = "bra" -> Result("none", Made(type, 2, d), FALSE)
      [] kind = "aca" -> Result("none", Made(type, 16, d), FALSE)
      [] kind = "ni" -> Result("none", Made(type, 4, d), FALSE)
      [] kind = "bad" ->
            (IF d.datalen % 8 # 0 THEN Result("ProtocolError", EmptyPacket, FALSE)
             ELSE Result("none", Made(type, d.datalen, d), FALSE))
      [] kind = "mnp" -> Result("none", Made(type, 18, d), FALSE)
      [] kind = "lla" -> Result("none", Made(type, d.datalen + 1, d), FALSE)
      [] kind = "mn_id" -> Result("none", Made(type, 1 + d.datalen, d), FALSE)
      [] kind = "auth" ->
            (IF (d.datalen + 6) % 4 # 0 THEN Result("ProtocolError", EmptyPacket, FALSE)
             ELSE Result("none", Made(type, 5 + d.datalen, d), FALSE))
      [] kind = "mesg_id" -> Result("none", Made(type, 8, d), FALSE)
      [] kind = "cga_pr" -> Result("none", Made(type, 0, d), FALSE)

\* An option schema, as the option list of a Mobility Header gave it, reaches
\* the reader.
MHStart ==
    /\ pc = "idle"
    /\ \E type \in DOMAIN OptionKinds \cup {"Unassigned"}, n \in 0..MaxOptLen,
          code \in {"MH", "Unassigned"} :
          /\ DataLen(KindOf(type), n) >= 0
          /\ KindOf(type) # "lla" => code = "MH"
          /\ option' = [type |-> type, length |-> n, code |-> code,
                        datalen |-> DataLen(KindOf(type), n)]
    /\ op' = "mh"
    /\ pc' = "option"
    /\ UNCHANGED <<file, pos, err, data, remade, warned>>
    /\ UNCHANGED <<fieldVars, walkVars>>
    /\ UNCHANGED restVars

\* _read_mh_options calls the reader of the option's type.
MHRead ==
    /\ pc = "option"
    /\ op = "mh"
    /\ LET r == ReadOpt(KindOf(option.type), option)
       IN  IF r.err # "none"
           THEN /\ pc' = "raised"
                /\ err' = r.err
                /\ UNCHANGED <<data, warned>>
           ELSE /\ pc' = "read"
                /\ data' = r.out
                /\ warned' = r.warned
                /\ UNCHANGED err
    /\ UNCHANGED <<op, file, pos, option, remade>>
    /\ UNCHANGED <<fieldVars, walkVars>>
    /\ UNCHANGED restVars

\* The constructor of the type is called on the data record read.
MHMake ==
    /\ pc = "read"
    /\ op = "mh"
    /\ LET r == MakeOpt(KindOf(data.type), data.type, data)
       IN  IF r.err # "none"
           THEN /\ pc' = "raised"
                /\ err' = r.err
                /\ UNCHANGED <<remade, warned>>
           ELSE /\ pc' = "made"
                /\ remade' = r.out
                /\ warned' = (warned \/ r.warned)
                /\ UNCHANGED err
    /\ UNCHANGED <<op, file, pos, option, data>>
    /\ UNCHANGED <<fieldVars, walkVars>>
    /\ UNCHANGED restVars

\* _make_opt_pad(type, option) or _make_opt_pad(type, length=n).
MakeOptPadAsAsked(type, d) == Result("none", Made(type, d.length, d), FALSE)
MakeOptPad(type, d) == MakeOpt("pad", type, d)

\* A caller builds a padding option: _make_opt_pad is called with a padding
\* type and a length, given in a data record or as the length argument.
MHMakePad ==
    /\ pc = "idle"
    /\ \E type \in {"Pad1", "PadN"}, n \in 0..MaxOptLen, record \in BOOLEAN :
          LET d == [type |-> type, length |-> n, datalen |-> n]
              r == MakeOptPad(type, d)
          IN  /\ option' = [type |-> type, length |-> n, code |-> "MH", datalen |-> n]
              /\ data' = IF record THEN d ELSE EmptyPacket
              /\ IF r.err # "none"
                 THEN /\ pc' = "raised"
                      /\ err' = r.err
                      /\ UNCHANGED <<remade, warned>>
                 ELSE /\ pc' = "made"
                      /\ remade' = r.out
                      /\ warned' = r.warned
                      /\ UNCHANGED err
    /\ op' = "pad"
    /\ UNCHANGED <<file, pos>>
    /\ UNCHANGED <<fieldVars, walkVars>>
    /\ UNCHANGED restVars

\* Numbers past 31 bits are kept as their base-65536 digits, the lowest
\* first: a number below 2^31, the sum of two numbers of two digits, and a
\* number times 2**32.
Big(n) == <<n % 65536, n \div 65536>>

BigSum(x, y) ==
    <<(x[1] + y[1]) % 65536,
      (x[2] + y[2] + (x[1] + y[1]) \div 65536) % 65536,
      (x[2] + y[2] + (x[1] + y[1]) \div 65536) \div 65536>>

BigTimes2to32(x) == <<0, 0>> \o x

\* 2_208_988_800, the seconds from 1900 to 1970.
SeventyYears == <<32384, 33706>>

\* The NTP timestamp _make_opt_mesg_id builds from interval.timestamp(),
\* given as its whole seconds and the microseconds math.ceil gives for the
\* rest: seconds = ts_sec + 2_208_988_800, fraction = microseconds * 2**32.
NTPFromInterval(ts_sec, micro) ==
    [seconds |-> BigSum(Big(ts_sec), SeventyYears),
     fraction |-> BigTimes2to32(Big(micro))]

\* The points in time a message identifier is built for: the epoch, a day of
\* 2026, the last second whose NTP seconds take 32 bits and the next one;
\* with no sub-second part, the least, a half and the most.
Intervals ==
    [ts_sec : {0, 1794000000, 2085978495, 2085978496},
     microsecond : {0, 1, 500000, 999999}]

\* _make_opt_mesg_id(type, interval=...): no option record and no NTP
\* timestamp are given. The float (int_ts - ts_sec) * 1_000_000 is the
\* microseconds or a little more, so math.ceil gives them or one more.
MHMakeMesgID ==
    /\ pc = "idle"
    /\ \E interval \in Intervals :
       \E micro \in (IF interval.microsecond = 0 THEN {0}
                     ELSE {interval.microsecond, interval.microsecond + 1}) :
          LET timestamp == NTPFromInterval(interval.ts_sec, micro)
          IN  /\ option' = [type |-> "MESG_ID_OPTION_TYPE", interval |-> interval]
              /\ remade' = [type |-> "MESG_ID_OPTION_TYPE", length |-> 8,
                            seconds |-> timestamp.seconds,
                            fraction |-> timestamp.fraction]
    /\ op' = "mesg_id"
    /\ pc' = "made"
    /\ UNCHANGED <<file, pos, err, data, warned>>
    /\ UNCHANGED <<fieldVars, walkVars>>
    /\ UNCHANGED restVars

\* ------------------------------------------- namespace-backed enums
\* '%d' % n: the decimal digits of a number that is not negative.
RECURSIVE Digits(_)
Digits(n) == IF n < 10 THEN <<n>> ELSE Append(Digits(n \div 10), n % 10)

\* A member: its name, as the format text and the digits that take the
\* place of its %d, and its value.
Member(text, digits, v) == [text |-> text, digits |-> digits, value |-> v]

\* The members the three enumeration classes declare.
Declared(e) ==
    CASE e = "Routing" ->
            {Member("Source_Route", <<>>, 0), Member("Nimrod", <<>>, 1),
             Member("Type_2_Routing_Header", <<>>, 2),
             Member("RPL_Source_Route_Header", <<>>, 3),
             Member("Segment_Routing_Header", <<>>, 4),
             Member("CRH_16", <<>>, 5), Member("CRH_32", <<>>, 6),
             Member("RFC3692_style_Experiment_1", <<>>, 253),
             Member("RFC3692_style_Experiment_2", <<>>, 254),
             Member("Reserved_255", <<>>, 255)}
      [] e = "StatusCode" ->
            {Member("DNS_update_performed", <<>>, 0),
             Member("Reason_unspecified", <<>>, 128),
             Member("Administratively_prohibited", <<>>, 129),
             Member("DNS_Update_Failed", <<>>, 130)}
      [] e = "ECDSACurve" ->
            {Member("RESERVED", <<>>, 0), Member("NIST_P_256", <<>>, 1),
             Member("NIST_P_384", <<>>, 2)}

Enums == {"Routing", "StatusCode", "ECDSACurve"}

\* The largest value the field an enumeration is read from can hold.
TopValue(e) == IF e = "ECDSACurve" THEN 65535 ELSE 255

\* The outcome of a lookup: the members afterwards, the member returned,
\* the exception raised.
Looked(mem, out, e) == [members |-> mem, out |-> out, err |-> e]

NoMember == Member("", <<>>, -1)

\* cls._missing_(value)
Missing(e, mem, v) ==
    CASE e = "Routing" ->
            (IF ~(0 <= v /\ v <= 255) THEN Looked(mem, NoMember, "ValueError")
             ELSE IF 7 <= v /\ v <= 252
             THEN LET m == Member("Unassigned_%d", Digits(v), v)
                  IN  Looked(mem \cup {m}, m, "none")
             ELSE Looked(mem, NoMember, "ValueError"))
      [] e = "StatusCode" ->
            (IF ~(0 <= v /\ v <= 255) THEN Looked(mem, NoMember, "ValueError")
             ELSE LET m == Member("Unassigned_%d", Digits(v), v)
                  IN  Looked(mem \cup {m}, m, "none"))
      [] e = "ECDSACurve" ->
            (IF ~(0 <= v /\ v <= 65535) THEN Looked(mem, NoMember, "ValueError")
             ELSE IF 3 <= v /\ v <= 65535
             THEN LET m == Member("Unassigned [%d]", Digits(v), v)
                  IN  Looked(mem \cup {m}, m, "none")
             ELSE Looked(mem, NoMember, "ValueError"))

\* cls(value): the member of that value, _missing_ when there is none.
Lookup(e, mem, v) ==
    IF \E m \in mem : m.value = v
    THEN Looked(mem, CHOOSE m \in mem : m.value = v, "none")
    ELSE Missing(e, mem, v)

\* The integers looked up: declared values, values no member has, and
\* values past either end of the fields' ranges.
LookupValues == {-1, 0, 2, 3, 7, 127, 131, 252, 253, 256, 65535, 65536}

\* An enumeration class as its module declares it.
EnumStart ==
    /\ pc = "idle"
    /\ \E e \in Enums :
          /\ enum' = e
          /\ members' = Declared(e)
    /\ found' = <<>>
    /\ op' = "enum"
    /\ pc' = "lookup"
    /\ UNCHANGED <<file, pos, err, nrb>>
    /\ UNCHANGED <<fieldVars, walkVars, mhVars, toolVars>>
    /\ UNCHANGED condVars
    /\ UNCHANGED callVars

\* One call cls(value).
EnumLookup ==
    /\ pc = "lookup"
    /\ op = "enum"
    /\ Len(found) < MaxLookups
    /\ \E v \in LookupValues :
          LET r == Lookup(enum, members, v)
          IN  /\ members' = r.members
              /\ found' = Append(found, [value |-> v, member |-> r.out, err |-> r.err])
              /\ err' = r.err
              /\ pc' = IF r.err = "none" THEN "lookup" ELSE "raised"
    /\ UNCHANGED <<op, file, pos, enum, nrb>>
    /\ UNCHANGED <<fieldVars, walkVars, mhVars, toolVars>>
    /\ UNCHANGED condVars
    /\ UNCHANGED callVars

\* ------------------------------------------------------ ConditionalField
\* NoValue, the default of a field constructed without one.
NoValue == -1

\* The buffers handed to unpack: every byte string of the wrapped field's
\* length over three byte values.
Buffers(n) == [1..n -> {0, 1, 255}]

CondPackAlways(c, v) == PackItem(v, c.length)
\* ConditionalField.pack(value, packet)
CondPackBytes(c, v) == IF ~c.holds THEN <<>> ELSE PackItem(v, c.length)

\* ConditionalField.unpack(buffer, packet)
CondUnpackValue(c, buffer) == IF ~c.holds THEN c.default ELSE UnpackItem(buffer)

\* ConditionalField.test(packet): the bytes of the buffer the field stands
\* for are its wrapped field's length when it is present and none otherwise.
CondTaken(c) == IF c.holds THEN c.length ELSE 0

\* A conditional field around a number field of 1..MaxItemLen bytes, with
\* or without a default, and a packet on which its condition holds or not.
CondStart ==
    /\ pc = "idle"
    /\ \E n \in 1..MaxItemLen, d \in {NoValue, 0, 7}, h \in BOOLEAN,
          v \in ItemValues(MaxItemLen), b \in Buffers(MaxItemLen) :
          /\ v < Pow256(n)
          /\ conditional' = [length |-> n, default |-> d, holds |-> h, value |-> v]
          /\ file' = b
    /\ pos' = 0
    /\ op' = "cond"
    /\ pc' = "field"
    /\ UNCHANGED <<err, packed, unpacked>>
    /\ UNCHANGED <<fieldVars, walkVars, mhVars, toolVars>>
    /\ UNCHANGED <<nrb, enum, members, found>>
    /\ UNCHANGED callVars

\* pack(value, packet)
CondPack ==
    /\ pc = "field"
    /\ op = "cond"
    /\ packed' = CondPackBytes(conditional, conditional.value)
    /\ pc' = "packed"
    /\ UNCHANGED <<op, file, pos, err, conditional, unpacked>>
    /\ UNCHANGED <<fieldVars, walkVars, mhVars, toolVars>>
    /\ UNCHANGED <<nrb, enum, members, found>>
    /\ UNCHANGED callVars

\* unpack(buffer, packet), the buffer being the bytes of the field at the
\* cursor.
CondUnpack ==
    /\ pc = "field"
    /\ op = "cond"
    /\ LET buffer == Read(file, pos, CondTaken(conditional))
       IN  /\ unpacked' = CondUnpackValue(conditional, buffer)
           /\ pos' = pos + Len(buffer)
    /\ pc' = "unpacked"
    /\ UNCHANGED <<op, file, err, conditional, packed>>
    /\ UNCHANGED <<fieldVars, walkVars, mhVars, toolVars>>
    /\ UNCHANGED <<nrb, enum, members, found>>
    /\ UNCHANGED callVars

\* ------------------------------------------- field instances, __call__
\* The field classes whose __call__ resolves an instance against a packet.
FieldKinds == {"ListField", "PayloadField", "ConditionalField"}

\* __init__ with a length callback and without a byte order: a ListField
\* starts with length -1, a PayloadField with 0. A ConditionalField is taken
\* around a ListField, whose attributes its properties hand through.
Constructed(kind) ==
    [kind |-> kind, _length |-> IF kind = "PayloadField" THEN 0 ELSE -1,
     _byteorder |-> "unset"]

\* The callbacks: the default lambda *_: None, and byteorder_callback.
Callbacks == {"none", "byteorder_callback"}

\* callback(field, packet): the field afterwards.
Called(cb, field, pkt) ==
    IF cb = "byteorder_callback"
    THEN [field EXCEPT !._byteorder = pkt.byteorder]
    ELSE field

\* The outcome of field(packet): the field called, as it is afterwards, the
\* instance returned, and whether that instance reads its attributes from
\* the field called.
Resolved(self, new, shares) == [self |-> self, new |-> new, shares |-> shares]

\* ListField.__call__ and PayloadField.__call__: copy, call the callback on
\* self, resolve the length on the copy.
CallField(self, cb, pkt) ==
    LET new_self == self
    IN  Resolved(Called(cb, self, pkt),
                 [new_self EXCEPT !._length = pkt.length], FALSE)

\* ConditionalField.__call__: a shallow copy, which holds the same wrapped
\* field; when the condition holds the wrapped field is called and what it
\* returns is dropped.
CallConditional(self, cb, pkt) ==
    IF pkt.holds
    THEN Resolved(CallField(self, cb, pkt).self, self, TRUE)
    ELSE Resolved(self, self, TRUE)

\* field(packet)
Call(self, cb, pkt) ==
    IF self.kind = "ConditionalField" THEN CallConditional(self, cb, pkt)
    ELSE CallField(self, cb, pkt)

\* The length and byte order an instance gives when it is used to read.
Observed(inst, shares, field) ==
    IF shares
    THEN [length |-> field._length, byteorder |-> field._byteorder]
    ELSE [length |-> inst._length, byteorder |-> inst._byteorder]

\* The packets of the runs: the length the length callback returns on them,
\* their byte order, and whether a condition holds on them.
RunPackets == [length : {0, 4}, byteorder : {"big", "little"}, holds : BOOLEAN]

\* Two unpack runs start on a schema class, each with its own packet.
FieldStart ==
    /\ pc = "idle"
    /\ \E kind \in FieldKinds, cb \in Callbacks, p1 \in RunPackets, p2 \in RunPackets :
          /\ kind # "ConditionalField" => (p1.holds /\ p2.holds)
          /\ descriptor' = Constructed(kind)
          /\ callback' = cb
          /\ runs' = [r \in 1..2 |->
                        [packet |-> IF r = 1 THEN p1 ELSE p2, at |-> "start",
                         instance |-> Constructed(kind), shares |-> FALSE,
                         result |-> [length |-> -1, byteorder |-> "unset"]]]
    /\ op' = "call"
    /\ pc' = "runs"
    /\ UNCHANGED <<file, pos, err>>
    /\ UNCHANGED <<fieldVars, walkVars, mhVars, toolVars>>
    /\ UNCHANGED <<nrb, enum, members, found>>
    /\ UNCHANGED condVars

\* A run reaches the field: field(packet) gives it its instance.
FieldCall ==
    /\ pc = "runs"
    /\ op = "call"
    /\ \E r \in 1..2 :
          /\ runs[r].at = "start"
          /\ LET c == Call(descriptor, callback, runs[r].packet)
             IN  /\ descriptor' = c.self
                 /\ runs' = [runs EXCEPT ![r].at = "called",
                                         ![r].instance = c.new,
                                         ![r].shares = c.shares]
    /\ UNCHANGED <<op, pc, file, pos, err, callback>>
    /\ UNCHANGED <<fieldVars, walkVars, mhVars, toolVars>>
    /\ UNCHANGED <<nrb, enum, members, found>>
    /\ UNCHANGED condVars

\* A run reads with its instance.
FieldUnpack ==
    /\ pc = "runs"
    /\ op = "call"
    /\ \E r \in 1..2 :
          /\ runs[r].at = "called"
          /\ runs' = [runs EXCEPT ![r].at = "done",
                                  ![r].result = Observed(runs[r].instance,
                                                         runs[r].shares, descriptor)]
    /\ UNCHANGED <<op, pc, file, pos, err, descriptor, callback>>
    /\ UNCHANGED <<fieldVars, walkVars, mhVars, toolVars>>
    /\ UNCHANGED <<nrb, enum, members, found>>
    /\ UNCHANGED condVars

\* ------------------------------------------------------------ specification
\* ------------------------------------------------ PCAP global header
\* The four magic numbers read_header accepts, with the lilendian and _nsec
\* it sets for each.
Magics ==
    {[data |-> <<212, 195, 178, 161>>, byteorder |-> "little", nanosecond |-> FALSE],
     [data |-> <<161, 178, 195, 212>>, byteorder |-> "big", nanosecond |-> FALSE],
     [data |-> <<77, 60, 178, 161>>, byteorder |-> "little", nanosecond |-> TRUE],
     [data |-> <<161, 178, 60, 77>>, byteorder |-> "big", nanosecond |-> TRUE]}

\* Magic numbers of other files: a PCAP-NG section header, the micro-second
\* magic with its middle bytes swapped, zeros.
OtherMagics == {<<10, 13, 13, 10>>, <<161, 195, 178, 212>>, <<0, 0, 0, 0>>}

\* The two's complement of the bytes of a number.
Complement(bs) == [i \in 1..Len(bs) |-> 255 - bs[i]]

\* _read_unpack(size, lilendian=..., signed=...): the next size bytes as a
\* number.
ReadUnpack(f, p, size, lilendian, signed) ==
    LET bs == IF lilendian THEN Reverse(Read(f, p, size)) ELSE Read(f, p, size)
    IN  IF signed /\ bs[1] >= 128 THEN -FromBytes(Complement(bs)) - 1
        ELSE FromBytes(bs)

\* _read_protos(size): the link type, read with lilendian=True.
ReadProtos(f, p, size) == ReadUnpack(f, p, 4, TRUE, FALSE)

\* The global headers handed to Header: every magic, the numbers written in
\* the order of the magic (little for a magic that names none).
HeaderValues ==
    [major : {2}, minor : {4}, zone : {-3600, -1, 0, 3600}, sigfigs : {0, 6},
     snaplen : {65535, 262144}, network : {0, 1, 101}]

HeaderStart ==
    /\ pc = "idle"
    /\ \E m \in {x.data : x \in Magics} \cup OtherMagics, h \in HeaderValues :
          LET order == IF \E x \in Magics : x.data = m /\ x.byteorder = "big"
                       THEN "big" ELSE "little"
              zone == IF h.zone < 0 THEN Complement(ToBytes(-h.zone - 1, 4))
                      ELSE ToBytes(h.zone, 4)
          IN  /\ file' = m \o Encode(h.major, 2, order) \o Encode(h.minor, 2, order)
                            \o (IF order = "little" THEN Reverse(zone) ELSE zone)
                            \o Encode(h.sigfigs, 4, order)
                            \o Encode(h.snaplen, 4, order)
                            \o Encode(h.network, 4, order)
              /\ sent' = [magic |-> m, order |-> order, header |-> h]
    /\ op' = "pcap"
    /\ pc' = "header"
    /\ pos' = 0
    /\ UNCHANGED <<err, block, cls, idx, packet, platform>>
    /\ UNCHANGED <<fieldVars, mhVars>>
    /\ UNCHANGED restVars

\* Header.read_header.
ReadHeader ==
    /\ pc = "header"
    /\ op = "pcap"
    /\ LET _magn == Read(file, 0, 4)
       IN  IF \E x \in Magics : x.data = _magn
           THEN LET magic == CHOOSE x \in Magics : x.data = _magn
                    lilendian == magic.byteorder = "little"
                IN  /\ block' = [magic_number |-> magic,
                                 version_major |-> ReadUnpack(file, 4, 2, lilendian, FALSE),
                                 version_minor |-> ReadUnpack(file, 6, 2, lilendian, FALSE),
                                 thiszone |-> ReadUnpack(file, 8, 4, lilendian, TRUE),
                                 sigfigs |-> ReadUnpack(file, 12, 4, lilendian, FALSE),
                                 snaplen |-> ReadUnpack(file, 16, 4, lilendian, FALSE),
                                 network |-> ReadProtos(file, 20, 4)]
                    /\ pos' = 24
                    /\ pc' = "returned"
                    /\ err' = err
           ELSE /\ pc' = "raised"
                /\ err' = "FileError"
                /\ pos' = 4
                /\ block' = block
    /\ UNCHANGED <<op, file, sent, cls, idx, packet, platform>>
    /\ UNCHANGED <<fieldVars, mhVars>>
    /\ UNCHANGED restVars

\* ------------------------------------------------------------ Extractor
\* Extractor.__init__ up to self.run(): the flags, the input file opened from
\* a name or passed in, wrapped in a SeekableReader when it cannot seek, and
\* the engine run() makes. The file holds so many frames.
ExtractorStart ==
    /\ pc = "idle"
    /\ \E auto \in BOOLEAN, no_eof \in BOOLEAN, named \in BOOLEAN,
          seekable \in BOOLEAN, n \in 0..MaxFrames :
          extractor' = [_flag_a |-> auto, _flag_n |-> no_eof, _flag_s |-> named,
                        _flag_e |-> FALSE,
                        reader |-> IF seekable THEN "BufferedReader"
                                   ELSE "SeekableReader",
                        _ifile |-> "open", _exeng |-> "open", frames |-> n,
                        reads |-> 0, eofs |-> 0, cleanups |-> 0]
    /\ op' = "extract"
    /\ pc' = "run"
    /\ UNCHANGED <<err, tracer>>
    /\ UNCHANGED parseVars

\* Extractor._cleanup.
Cleanup(e) ==
    [e EXCEPT !._flag_e = TRUE,
              !._ifile = IF e.reader = "SeekableReader" \/ ~e._flag_s
                         THEN "closed" ELSE @,
              !._exeng = "closed",
              !.cleanups = @ + 1]

\* What self._exeng.read_frame() does: a frame while the file has frames,
\* then EOFError or StopIteration; KeyboardInterrupt at any time.
ReadFrame(e) ==
    (IF e.frames > 0 THEN {"frame"} ELSE {"EOFError", "StopIteration"})
        \cup {"KeyboardInterrupt"}

\* The extractor after read_frame came out that way.
AfterRead(e, out) ==
    [e EXCEPT !.reads = @ + 1,
              !.frames = IF out = "frame" THEN @ - 1 ELSE @,
              !.eofs = IF out \in {"EOFError", "StopIteration"} THEN @ + 1 ELSE @]

\* "if self._flag_n: continue", and the same test of __next__ and __call__:
\* whether an EOF ends the reading.
EOFEndsAlways(e) == TRUE
EOFEnds(e) == ~e._flag_n

\* record_frames: entered from run(), then one turn of its loop at a time.
RecordFrames ==
    /\ op = "extract"
    /\ pc \in {"run", "frames"}
    /\ IF ~extractor._flag_a
       THEN /\ pc' = "ready"
            /\ UNCHANGED <<extractor, err>>
       ELSE /\ extractor.eofs < MaxEOF
            /\ \E out \in ReadFrame(extractor) :
                  LET e == AfterRead(extractor, out)
                  IN  CASE out = "frame" ->
                             /\ extractor' = e
                             /\ pc' = "frames"
                             /\ err' = err
                        [] out = "KeyboardInterrupt" ->
                             /\ extractor' = Cleanup(e)
                             /\ pc' = "raised"
                             /\ err' = out
                        [] OTHER ->
                             IF EOFEnds(e)
                             THEN /\ extractor' = Cleanup(e)
                                  /\ pc' = "done"
                                  /\ err' = err
                             ELSE /\ extractor' = e
                                  /\ pc' = "frames"
                                  /\ err' = err
    /\ UNCHANGED <<op, tracer>>
    /\ UNCHANGED parseVars

\* One call of __next__ or __call__, or one level of its recursion under
\* no_eof; the recursion ends in RecursionError.
Iterate(call) ==
    /\ op = "extract"
    /\ pc \in {"ready", "done", call}
    /\ IF call = "__call__" /\ extractor._flag_a
       THEN /\ pc' = "raised"
            /\ err' = "CallableError"
            /\ UNCHANGED extractor
       ELSE \E out \in ReadFrame(extractor) :
               LET e == AfterRead(extractor, out)
               IN  CASE out = "frame" ->
                          /\ extractor' = e
                          /\ pc' = IF extractor._flag_a THEN "done" ELSE "ready"
                          /\ err' = err
                     [] out = "KeyboardInterrupt" ->
                          /\ extractor' = Cleanup(e)
                          /\ pc' = "raised"
                          /\ err' = out
                     [] OTHER ->
                          IF EOFEnds(e)
                          THEN /\ extractor' = Cleanup(e)
                               /\ pc' = "raised"
                               /\ err' = IF call = "__next__" THEN "StopIteration"
                                          ELSE out
                          ELSE /\ extractor' = e
                               /\ pc' = IF e.eofs < MaxEOF THEN call ELSE "raised"
                               /\ err' = IF e.eofs < MaxEOF THEN err
                                          ELSE "RecursionError"
    /\ UNCHANGED <<op, tracer>>
    /\ UNCHANGED parseVars

ExtractorNext == Iterate("__next__")

ExtractorCall == Iterate("__call__")

\* ------------------------------------------------------ TCP flow tracing
\* The buffer identifiers of the packets traced: the two directions of one
\* connection and a second connection.
BufferIDs == {<<"a", 1, "b", 2>>, <<"b", 2, "a", 1>>, <<"a", 3, "b", 2>>}

\* f'{packet.src}_{packet.srcport}-{packet.dst}_{packet.dstport}-{packet.timestamp}',
\* kept as its parts.
Label(pkt) == [id |-> pkt.id, timestamp |-> pkt.timestamp]

\* if BUFID not in self._buffer: self._buffer[BUFID] = Buffer(index=[], label=label)
\* The buffer is a dict, kept as its items in insertion order.
Opened(buffer, pkt) ==
    IF \E k \in 1..Len(buffer) : buffer[k].id = pkt.id THEN buffer
    ELSE Append(buffer, [id |-> pkt.id, index |-> <<>>, label |-> Label(pkt)])

\* self._buffer[BUFID].index.append(packet.index)
FiledFirst(buffer, pkt) ==
    [k \in 1..Len(buffer) |->
        IF buffer[k].id = pkt.id
        THEN [buffer[k] EXCEPT !.index = <<pkt.index>> \o @] ELSE buffer[k]]
Filed(buffer, pkt) ==
    [k \in 1..Len(buffer) |->
        IF buffer[k].id = pkt.id
        THEN [buffer[k] EXCEPT !.index = Append(@, pkt.index)] ELSE buffer[k]]

\* if FIN: buf = self._buffer.pop(BUFID); self._stream.append(Index(...))
FinishedKept(t, pkt) ==
    LET buf == t._buffer[CHOOSE k \in 1..Len(t._buffer) : t._buffer[k].id = pkt.id]
    IN  [t EXCEPT !._stream = Append(@, [index |-> buf.index, label |-> buf.label])]
Finished(t, pkt) ==
    LET k == CHOOSE k \in 1..Len(t._buffer) : t._buffer[k].id = pkt.id
        buf == t._buffer[k]
    IN  [t EXCEPT !._buffer = SubSeq(@, 1, k - 1) \o SubSeq(@, k + 1, Len(@)),
                  !._stream = Append(@, [index |-> buf.index, label |-> buf.label])]

\* self.__cached__['submit'] = None; None is the empty sequence, a cached
\* tuple is wrapped in a sequence of one.
ClearedNot(cached) == cached
Cleared(cached) == <<>>

\* The tuple submit builds: an Index for every buffer of self._buffer, then
\* self._stream.
Submitted(t) ==
    [k \in 1..Len(t._buffer) |->
        [index |-> t._buffer[k].index, label |-> t._buffer[k].label]] \o t._stream

\* TCP(...): a tracer with nothing traced.
TraceStart ==
    /\ pc = "idle"
    /\ tracer' = [_buffer |-> <<>>, _stream |-> <<>>, cached |-> <<>>,
                  traced |-> <<>>, label |-> <<>>, ret |-> <<>>, from |-> "none"]
    /\ op' = "trace"
    /\ pc' = "tracing"
    /\ UNCHANGED <<err, extractor>>
    /\ UNCHANGED parseVars

\* TCP.trace(packet): the packets come with the frame numbers 1, 2, ...
Trace ==
    /\ op = "trace"
    /\ pc = "tracing"
    /\ Len(tracer.traced) < MaxPackets
    /\ \E id \in BufferIDs, fin \in BOOLEAN, ts \in {10, 20} :
          LET pkt == [id |-> id, fin |-> fin, timestamp |-> ts,
                         index |-> Len(tracer.traced) + 1]
              buffer == Filed(Opened(tracer._buffer, pkt), pkt)
              label == buffer[CHOOSE k \in 1..Len(buffer) : buffer[k].id = id].label
              t == [tracer EXCEPT !.cached = Cleared(@),
                                  !._buffer = buffer,
                                  !.traced = Append(@, pkt),
                                  !.label = <<label>>]
          IN  tracer' = IF fin THEN Finished(t, pkt) ELSE t
    /\ UNCHANGED <<op, pc, err, extractor>>
    /\ UNCHANGED parseVars

\* TCP.submit()
Submit ==
    /\ op = "trace"
    /\ pc = "tracing"
    /\ tracer' = IF tracer.cached # <<>>
                 THEN [tracer EXCEPT !.ret = <<tracer.cached[1]>>, !.from = "cache"]
                 ELSE [tracer EXCEPT !.cached = <<Submitted(tracer)>>,
                                     !.ret = <<Submitted(tracer)>>,
                                     !.from = "buffer"]
    /\ UNCHANGED <<op, pc, err, extractor>>
    /\ UNCHANGED parseVars

Init ==
    /\ op = "none"
    /\ value = <<>>
    /\ itemlen = 0
    /\ file = <<>>
    /\ pos = 0
    /\ budget = 0
    /\ length = 0
    /\ temp = <<>>
    /\ pc = "idle"
    /\ err = "none"
    /\ meta = EmptyPacket
    /\ registry = HIPRegistry
    /\ cls = ""
    /\ idx = 0
    /\ packet = EmptyPacket
    /\ platform = [host |-> "big", wide |-> FALSE]
    /\ sent = EmptyPacket
    /\ block = EmptyPacket
    /\ option = EmptyPacket
    /\ data = EmptyPacket
    /\ remade = EmptyPacket
    /\ warned = FALSE
    /\ nrb = EmptyPacket
    /\ enum = ""
    /\ members = {}
    /\ found = <<>>
    /\ conditional = EmptyPacket
    /\ packed = <<>>
    /\ unpacked = -1
    /\ descriptor = EmptyPacket
    /\ callback = ""
    /\ runs = <<>>
    /\ extractor = EmptyPacket
    /\ tracer = EmptyPacket

Next ==
    \/ ListPack
    \/ ListCall
    \/ ListUnpackItem
    \/ ListReturn
    \/ OptionPack
    \/ OptionCall
    \/ OptionUnpackItem
    \/ OptionReturn
    \/ BlockStart
    \/ ParamStart
    \/ RecordStart
    \/ OptionStart
    \/ NRBPostProcess
    \/ SchemaBind
    \/ SchemaPostProcess
    \/ MHStart
    \/ MHRead
    \/ MHMake
    \/ MHMakePad
    \/ MHMakeMesgID
    \/ EnumStart
    \/ EnumLookup
    \/ CondStart
    \/ CondPack
    \/ CondUnpack
    \/ FieldStart
    \/ FieldCall
    \/ FieldUnpack
    \/ HeaderStart
    \/ ReadHeader
    \/ ExtractorStart
    \/ RecordFrames
    \/ ExtractorNext
    \/ ExtractorCall
    \/ TraceStart
    \/ Trace
    \/ Submit

Spec == Init /\ [][Next]_vars

\* The loop of record_frames keeps turning while it can.
LiveSpec == Spec /\ WF_vars(RecordFrames)

\* ------------------------------------------------------------------ claims
Started == pc \in {"loop", "returned", "raised"}

\* C1: OptionField.unpack on a byte budget L consumes exactly L bytes: it
\* returns only with the options' lengths summing to L, and an option that
\* takes the remaining budget below zero raises FieldValueError, nothing
\* being read beyond the budget.
OptionBudgetExact ==
    (op = "option" /\ Started) =>
        /\ (pc = "returned" => pos = budget)
        /\ (length < 0 => pc = "raised" /\ err = "FieldValueError")
        /\ pos <= budget

OptionItemStep ==
    [][(op = "option" /\ pc = "loop" /\ Len(temp') = Len(temp) + 1) =>
          LET it == temp'[Len(temp')]
              type == FromBytes(SubSeq(file, pos + 1, pos + 2))
              len == FromBytes(SubSeq(file, pos + 3, pos + 4))
          IN  /\ meta'["type"] = type
              /\ meta'["len"] = len
              /\ it.schema = IF type \in DOMAIN HIPRegistry
                             THEN HIPRegistry[type] ELSE "UnassignedParameter"
              /\ it.start = pos
              /\ it.pkt["type"] = type
              /\ it.pkt["len"] = len
              /\ (it.schema = "UnassignedParameter" => it.pkt["value"] = len)
              /\ pos' = pos + it.size
              /\ length' = length - it.size]_vars

\* C3, its case: a parameter of the unregistered type 0xFFFE was read as an
\* UnassignedParameter after another parameter.
OptionUnassignedRead ==
    /\ op = "option"
    /\ Len(temp) >= 2
    /\ temp[Len(temp)].schema = "UnassignedParameter"
    /\ temp[Len(temp)].pkt["type"] = 65534
    /\ temp[Len(temp)].pkt["value"] = 5
    /\ pos = temp[Len(temp)].start + temp[Len(temp)].size

\* C5: a list packs to its items' packings in list order, and unpacking that
\* on a budget of its length gives the list back, item for item, and never
\* raises.
ListRoundTrip ==
    (op = "list" /\ Started /\ budget = Len(PackList(value, itemlen))) =>
        /\ pc # "raised"
        /\ \A i \in 1..Len(value) :
              SubSeq(PackList(value, itemlen), (i - 1) * itemlen + 1, i * itemlen)
                 = PackItem(value[i], itemlen)
        /\ temp = SubSeq(value, 1, Len(temp))
        /\ (pc = "returned" => temp = value)

\* C5, its case: a list of differing items came back from its packing.
ListRoundTripDone ==
    /\ op = "list"
    /\ pc = "returned"
    /\ budget = Len(PackList(value, itemlen))
    /\ Len(value) >= 2
    /\ value[1] # value[2]
    /\ temp = value

Walked == op \in {"block", "param"} /\ pc \in {"returned", "raised"}

\* C4: no block schema with a leading length and a trailing length2 returns
\* an instance of a block whose two lengths differ: unpacking it raises
\* ProtocolError.
SandwichChecked ==
    (op = "block" /\ pc = "returned") => packet["length"] = packet["length2"]

\* C7: a well-formed HIP parameter, one whose fields between the header and
\* the padding take len bytes, has a total size that is a multiple of 8.
ParamAligned ==
    (op = "param" /\ pc = "returned" /\ "padding" \in DOMAIN packet
        /\ pos = 4 + sent.len + packet["padding"]) =>
        pos % 8 = 0

\* C8: when a field of a HIP or PCAP-NG schema is reached while unpacking a
\* well-formed structure, every key its length callback subscripts is bound
\* in the packet context.
LengthKeysBound ==
    (op \in {"block", "param"} /\ pc = "fields" /\ idx <= Len(Fields)
        /\ (op = "block" => sent.length = sent.length2)) =>
        Keys(Fields[idx].len) \subseteq DOMAIN packet

\* C9: a section header block whose magic is one of the two byte-order magics
\* unpacks with every number, the trailing length2 included, decoded in the
\* order the magic announces, whatever the host order, and has its byteorder
\* attribute set to that order; with any other magic it raises ProtocolError.
\* (Taken on the runs where the match field reads the magic.)
ByteOrderFromMagic ==
    (Walked /\ op = "block" /\ cls = "SectionHeaderBlock" /\ platform.wide
        /\ sent.length = sent.length2) =>
        IF sent.magic = BigMagic
        THEN /\ pc = "returned"
             /\ block["byteorder"] = sent.order
             /\ packet["length"] = sent.length
             /\ packet["magic"] = BigMagic
             /\ packet["major"] = 1
             /\ packet["minor"] = 0
             /\ packet["section_length"] = 0
             /\ packet["length2"] = sent.length2
        ELSE pc = "raised" /\ err = "ProtocolError"

\* C6: for a valid option of any kind, the constructor called on the data
\* record the reader returned gives a schema of the same type and the same
\* length field. (A message identifier option is valid with length 8.)
ReadMakeKeepsLength ==
    (op = "mh" /\ pc = "made"
        /\ (KindOf(option.type) = "mesg_id" => option.length = 8)) =>
        /\ remade.type = option.type
        /\ remade.length = option.length

\* C10: a Pad1 option whose length field is not zero is read without an
\* exception: a warning is issued and the record is that of a PadN option.
Pad1Tolerated ==
    (op = "mh" /\ pc \in {"read", "made", "raised"} /\ option.type = "Pad1"
        /\ option.length # 0) =>
        /\ pc # "raised"
        /\ warned
        /\ data.type = "PadN"

\* C11: an option whose type has no entry in __option__ is read by the
\* unassigned-option reader without an exception, into a record with the
\* option's type, its data bytes and its length field plus 2.
UnassignedOptionRead ==
    (op = "mh" /\ pc \in {"read", "made", "raised"}
        /\ option.type \notin DOMAIN OptionKinds) =>
        /\ pc # "raised"
        /\ data.type = option.type
        /\ data.datalen = option.datalen
        /\ data.length = option.length + 2

\* C12: the cipher pre_unpack gives an ENCRYPTED parameter is the k-th of the
\* cipher ids of the HIP_CIPHER parameters read before it, k being the number
\* of ENCRYPTED parameters read before it; 0xffff only when there was no
\* HIP_CIPHER parameter, 0xfffe only when k is past the cipher ids; and the
\* IV is read exactly when the cipher is AES_128_CBC or AES_256_CBC.
CipherSelected ==
    (op = "param" /\ cls = "EncryptedParameter" /\ "options" \in DOMAIN packet) =>
        LET ids == Flatten(packet["options"].ciphers)
            k == packet["options"].encrypted
            aes == {Enum_Cipher.AES_128_CBC, Enum_Cipher.AES_256_CBC}
        IN  /\ packet["__cipher__"] =
                    (IF packet["options"].ciphers = <<>> THEN 65535
                     ELSE IF k >= Len(ids) THEN 65534 ELSE ids[k + 1])
            /\ pc = "returned" =>
                    (packet["iv"] = 16 <=> packet["__cipher__"] \in aes)

\* C13: an IPv4 record whose resolution string is one NUL-terminated name
\* gets names equal to the one-element list of that name, and the block's
\* mapping holds ip -> name, its reverse mapping name -> ip, and nothing else.
OneNameMapped ==
    (op = "record" /\ pc = "mapped" /\ cls = "IPv4Record"
        /\ Len(sent.resol) > 1
        /\ \A i \in 1..Len(sent.resol) : sent.resol[i] = 0 <=> i = Len(sent.resol)) =>
        LET name == SubSeq(sent.resol, 1, Len(sent.resol) - 1)
        IN  /\ block["names"] = <<name>>
            /\ nrb.mapping = <<<<sent.ip, name>>>>
            /\ nrb.reverse_mapping = <<<<name, sent.ip>>>>

\* C14: a lookup of an integer of the field's range that no declared member
\* has returns, without an exception, a member of that value named
\* Unassigned_<N>; a later lookup of the same integer returns the same member,
\* and only the first lookup of such an integer registers one.
OpenEnumLookup ==
    op = "enum" =>
        /\ \A i \in 1..Len(found) :
              LET v == found[i].value
              IN  (0 <= v /\ v <= TopValue(enum)
                      /\ ~\E m \in Declared(enum) : m.value = v) =>
                      /\ found[i].err = "none"
                      /\ found[i].member = Member("Unassigned_%d", Digits(v), v)
                      /\ \A j \in i..Len(found) :
                            found[j].value = v => found[j].member = found[i].member
        /\ Cardinality(members \ Declared(enum)) =
              Cardinality({found[i].value : i \in 1..Len(found)}
                            \ ({m.value : m \in Declared(enum)}
                                  \cup {v \in LookupValues : v < 0 \/ v > TopValue(enum)}))

\* C15: a conditional field whose condition is false packs to the empty byte
\* string whatever the value and unpacks to the wrapped field's default with
\* the cursor where it was; one whose condition is true packs and unpacks as
\* the wrapped field does.
CondSkipsOrWraps ==
    /\ (op = "cond" /\ pc = "packed") =>
            packed = (IF conditional.holds THEN PackItem(conditional.value, conditional.length) ELSE <<>>)
    /\ (op = "cond" /\ pc = "unpacked") =>
            IF conditional.holds
            THEN /\ unpacked = UnpackItem(SubSeq(file, 1, conditional.length))
                 /\ pos = conditional.length
            ELSE /\ unpacked = conditional.default
                 /\ pos = 0

CondSkipped ==
    /\ op = "cond"
    /\ pc = "unpacked"
    /\ ~conditional.holds
    /\ conditional.default = 7
    /\ unpacked = 7
    /\ pos = 0
    /\ file[1] = 255

\* C16: parsing leaves a type-tag registry as it was: during and after
\* OptionField.unpack over any input the registry holds exactly the entries
\* the schema gave it.
RegistryReadOnly ==
    op = "option" => registry = HIPRegistry

CallLeavesFieldAlone ==
    [][\A r \in 1..2 :
          (op = "call" /\ runs[r].at = "start" /\ runs'[r].at = "called") =>
              LET pkt == runs[r].packet
                  new == Observed(runs'[r].instance, runs'[r].shares, descriptor')
              IN  /\ descriptor' = descriptor
                  /\ pkt.holds => new.length = pkt.length
                  /\ (pkt.holds /\ callback = "byteorder_callback") =>
                          new.byteorder = pkt.byteorder]_vars

\* C19: every bit field the schema being unpacked declares keeps each
\* sub-field inside its length*8 bits, and no two of its sub-fields overlap.
BitFieldsFit ==
    cls # "" =>
        \A f \in BitFields :
            f.schema = cls =>
                /\ \A sub \in f.namespace : sub[2] + sub[3] <= f.length * 8
                /\ \A a \in f.namespace, b \in f.namespace :
                      a # b => (a[2] + a[3] <= b[2] \/ b[2] + b[3] <= a[2])

\* C20: an option or a name-resolution record, whatever its length field,
\* takes a multiple of 4 bytes: the cursor after its schema is unpacked is a
\* multiple of 4 from its start.
OptionsAligned ==
    (op \in {"opt", "record"} /\ pc \in {"returned", "mapped"}) => pos % 4 = 0

\* C21: read_header returns for exactly the four magic numbers, with the
\* byte order and the nanosecond flag of the magic and with every number of
\* the header, the link type included, as it was written in that order; for
\* any other magic it raises FileError.
HeaderInMagicOrder ==
    (op = "pcap" /\ pc \in {"returned", "raised"}) =>
        IF \E x \in Magics : x.data = sent.magic
        THEN /\ pc = "returned"
             /\ block.magic_number.data = sent.magic
             /\ block.magic_number.byteorder = sent.order
             /\ block.magic_number.nanosecond = (60 \in {sent.magic[2], sent.magic[3]})
             /\ block.version_major = sent.header.major
             /\ block.version_minor = sent.header.minor
             /\ block.thiszone = sent.header.zone
             /\ block.sigfigs = sent.header.sigfigs
             /\ block.snaplen = sent.header.snaplen
             /\ block.network = sent.header.network
        ELSE pc = "raised" /\ err = "FileError"

\* C22: once a call that met EOF with no_eof False has returned or raised,
\* _cleanup has run: the EOF flag is set, the input file is closed, whether
\* it was opened from a name or passed in, and the engine is closed.
CleanedUpAtEOF ==
    (op = "extract" /\ pc \in {"done", "raised"} /\ ~extractor._flag_n
        /\ extractor.eofs > 0) =>
        /\ extractor.cleanups > 0
        /\ extractor._flag_e
        /\ extractor._ifile = "closed"
        /\ extractor._exeng = "closed"

OptionsBudgetIsRest ==
    (op = "block" /\ pc = "fields" /\ idx <= Len(Fields)
        /\ cls \in {"SectionHeaderBlock", "InterfaceDescriptionBlock",
                    "EnhancedPacketBlock", "InterfaceStatisticsBlock",
                    "DecryptionSecretsBlock", "PacketBlock"}
        /\ sent.length = sent.length2
        /\ (cls = "SectionHeaderBlock" => platform.wide /\ sent.magic = BigMagic)) =>
        (Fields[idx].name = "options" =>
            /\ Keys(Fields[idx].len) \subseteq DOMAIN packet
            /\ Eval(Fields[idx].len, packet) = sent.length - 4 - pos - 4)

\* The packets traced with a buffer identifier since the last of them that
\* had FIN set, as their frame numbers in the order traced.
SinceFIN(id) ==
    LET traced == tracer.traced
        same == {i \in 1..Len(traced) : traced[i].id = id}
        fins == {i \in same : traced[i].fin}
        from == IF fins = {} THEN 0 ELSE CHOOSE i \in fins : \A j \in fins : j <= i
    IN  SelectSeq([i \in 1..Len(traced) |-> i], LAMBDA i : i \in same /\ i > from)

\* C25: trace files the packet under the flow of its 4-tuple, opening the
\* flow with a label of the 4-tuple and this first packet's timestamp when
\* none is open, and returns that flow's label; a packet with FIN moves its
\* flow, the FIN packet included, to the end of the finished stream. So the
\* open flows are those of the 4-tuples whose latest packet had no FIN, each
\* holding the packets since the last FIN of its 4-tuple.
FlowsFollowFIN ==
    (op = "trace" /\ tracer.traced # <<>>) =>
        LET traced == tracer.traced
            last == traced[Len(traced)]
            open == tracer._buffer
            done == tracer._stream
            flow == IF last.fin THEN done[Len(done)]
                    ELSE open[CHOOSE k \in 1..Len(open) : open[k].id = last.id]
        IN  /\ \A k, l \in 1..Len(open) : open[k].id = open[l].id => k = l
            /\ \A id \in BufferIDs :
                  (\E k \in 1..Len(open) : open[k].id = id) <=> SinceFIN(id) # <<>>
            /\ \A k \in 1..Len(open) :
                  /\ open[k].index = SinceFIN(open[k].id)
                  /\ open[k].label = Label(traced[open[k].index[1]])
            /\ last.fin => Len(done) > 0
            /\ ~last.fin => \E k \in 1..Len(open) : open[k].id = last.id
            /\ flow.index[Len(flow.index)] = last.index
            /\ flow.label.id = last.id
            /\ flow.label.timestamp = traced[flow.index[1]].timestamp
            /\ tracer.label = <<flow.label>>

\* A flow finished by a FIN, and then a new flow opened for its 4-tuple.
FlowReopened ==
    /\ op = "trace"
    /\ Len(tracer._stream) = 1
    /\ Len(tracer._stream[1].index) = 2
    /\ \E k \in 1..Len(tracer._buffer) :
          tracer._buffer[k].id = tracer._stream[1].label.id

\* C26: the flows submit returns partition the packets traced: every frame
\* number traced is in exactly one flow, once; the frame numbers of a flow
\* are in the order traced; the packets of a flow have the flow's 4-tuple.
FlowsPartition ==
    (op = "trace" /\ tracer.cached # <<>> /\ tracer.ret # <<>>) =>
        LET traced == tracer.traced
            flows == tracer.ret[1]
            places == {kj \in (1..Len(flows)) \X (1..MaxPackets) :
                          kj[2] <= Len(flows[kj[1]].index)}
        IN  /\ \A i \in 1..Len(traced) :
                  Cardinality({kj \in places : flows[kj[1]].index[kj[2]] = i}) = 1
            /\ \A kj \in places :
                  LET index == flows[kj[1]].index
                  IN  /\ index[kj[2]] \in 1..Len(traced)
                      /\ kj[2] > 1 => index[kj[2] - 1] < index[kj[2]]
                      /\ traced[index[kj[2]]].id = flows[kj[1]].label.id

\* A submit of two flows, one open and one finished, over MaxPackets packets.
FlowsSubmitted ==
    /\ op = "trace"
    /\ tracer.cached # <<>>
    /\ tracer.ret # <<>>
    /\ Len(tracer.traced) = MaxPackets
    /\ Len(tracer.ret[1]) = 2
    /\ Len(tracer._stream) = 1
    /\ Len(tracer._buffer) = 1

\* The open flows in opening order, then the finished flows in finishing
\* order.
OpenThenFinished(t) ==
    [k \in 1..Len(t._buffer) |->
        [index |-> t._buffer[k].index, label |-> t._buffer[k].label]] \o t._stream

\* C27: submit is never stale: the cached tuple, when there is one, is the
\* open flows in opening order and then the finished flows in finishing
\* order as they now are; a call of submit returns that tuple, which holds
\* every packet traced, the same as the call before when nothing was traced
\* in between, and leaves the buffer and the stream as they were.
SubmitNeverStale ==
    /\ []((op = "trace" /\ tracer.cached # <<>>) =>
            tracer.cached[1] = OpenThenFinished(tracer))
    /\ [][(op = "trace" /\ pc = "tracing" /\ tracer'.traced = tracer.traced) =>
            /\ tracer'._buffer = tracer._buffer
            /\ tracer'._stream = tracer._stream
            /\ tracer'.ret = <<OpenThenFinished(tracer)>>
            /\ \A i \in 1..Len(tracer.traced) :
                  \E k \in 1..Len(tracer'.ret[1]) :
                     \E j \in 1..Len(tracer'.ret[1][k].index) :
                        tracer'.ret[1][k].index[j] = i
            /\ (tracer.cached # <<>> => tracer'.ret = tracer.ret)]_vars

\* A submit answered from the cache after packets were traced.
SubmitCached ==
    /\ op = "trace"
    /\ tracer.from = "cache"
    /\ Len(tracer.traced) >= 2
    /\ Len(tracer._stream) >= 1

\* C28: _make_opt_pad called with a padding type never raises; the schema it
\* returns has the length asked for, type Pad1 exactly when that length is 0
\* and PadN exactly when it is not, with a warning exactly when the type was
\* switched, and _read_opt_pad accepts it.
PadTypeFollowsLength ==
    (op = "pad") =>
        /\ pc = "made"
        /\ remade.length = option.length
        /\ remade.type = (IF remade.length = 0 THEN "Pad1" ELSE "PadN")
        /\ warned <=> (remade.type # option.type)
        /\ ReadOpt("pad", [option EXCEPT !.type = remade.type,
                                         !.length = remade.length]).err = "none"

\* A PadN asked for with length 0 and made a Pad1 with a warning.
PadNSwitched ==
    /\ op = "pad"
    /\ pc = "made"
    /\ option.type = "PadN"
    /\ option.length = 0
    /\ remade.type = "Pad1"
    /\ warned

\* The bytes the fields of fixed length take, from field i on: the header
\* and the fixed part of the body (a conditional field when it was read).
RECURSIVE FixedPart(_, _)
FixedPart(fields, i) ==
    IF i > Len(fields) THEN 0
    ELSE (IF fields[i].name # "padding" /\ fields[i].len.kind = "const"
             /\ (fields[i].kind = "cond" => packet[fields[i].name] # 0)
          THEN fields[i].len.a ELSE 0) + FixedPart(fields, i + 1)

\* C29: a HIP parameter whose schema sizes a field of the body from len, and
\* whose len covers the fixed part of the body and divides where the schema
\* halves it, is unpacked with the fields between the header and the padding
\* taking exactly len bytes.
ParamBodyTakesLen ==
    (op = "param" /\ pc = "returned" /\ "padding" \in DOMAIN packet
        /\ (\E i \in 1..Len(Fields) :
                Fields[i].name # "padding" /\ "len" \in Keys(Fields[i].len))
        /\ (\A i \in 1..Len(Fields) :
                Fields[i].len.kind = "half" => (sent.len + Fields[i].len.a) % 2 = 0)
        /\ FixedPart(Fields, 1) <= 4 + sent.len) =>
        pos - packet["padding"] = 4 + sent.len

\* C30: the message identifier option built from a point in time has length
\* 8, seconds equal to the whole seconds since the UNIX epoch plus
\* 2208988800, and seconds and fraction both in 0..2^32-1: no digit past
\* the two that 32 bits hold.
MesgIDFitsEightBytes ==
    (op = "mesg_id" /\ pc = "made") =>
        /\ remade.length = 8
        /\ remade.seconds[1] - 32384
              + 65536 * (remade.seconds[2] - 33706 + 65536 * remade.seconds[3])
              = option.interval.ts_sec
        /\ \A i \in 3..Len(remade.seconds) : remade.seconds[i] = 0
        /\ \A i \in 3..Len(remade.fraction) : remade.fraction[i] = 0

====
